---- MODULE Spec2Model ----
(***************************************************************************)
(* Model of the workflow editor: the document validator (validateYaml),    *)
(* the relationship inferencer (findRelationships) and the view            *)
(* synchronization of the Home page (handleYamlChange and the effects of   *)
(* Home and YamlEditor), the list edits of ActionBuilder and               *)
(* FlowVisualizer with the graph FlowVisualizer derives, and the SQL       *)
(* utilities (detectSQLSyntax, formatSQL, validateSQL,                     *)
(* identifySQLProperties, autoFormatSQLInAction, validateSQLInAction).     *)
(*                                                                         *)
(* JavaScript strings are sequences of one-character strings.  A           *)
(* JavaScript value is a pair [t, v]: t is its type and v the sequence of  *)
(* its items, each item [s, c] with s = "is a string" and c its text.  A   *)
(* string has exactly one item.  An object is a function from FieldNames   *)
(* to values, with Absent for the keys the object does not have.           *)
(***************************************************************************)
EXTENDS Integers, Sequences, FiniteSets, TLC

VARIABLES
    activeTab,          \* Home: the tab shown
    yamlContent,        \* Home: the text of the text view
    actions,            \* Home: the canonical record list
    validationErrors,   \* Home: the errors shown
    editorMounted,      \* YamlEditor: editorRef.current is set
    editorEffectDue,    \* YamlEditor: the [value, onChange] effect must run
    actionsEffectDue,   \* Home: the [actions] effect must run
    escaped,            \* an exception left an event handler
    event,              \* the user event being handled, with the list at dispatch
    builder,            \* ActionBuilder: isDialogOpen, editIndex
    flow,               \* FlowVisualizer: the dialogs, editIndex, insertPosition
    nodes, edges,       \* FlowVisualizer: the graph shown
    flowEffectDue,      \* FlowVisualizer: the nodes/edges effect must run
    valIn, valOut, valPc,   \* validateYaml applied to an input
    infIn, infOut, infPc,   \* findRelationships applied to an input
    sqlIn, sqlOut, sqlPc,   \* the SQL utilities applied to an input
    s3,                 \* Home: the S3 upload dialog, the file name, the upload started
    reader,             \* Home: the FileReader of handleFileUpload
    form                \* the ActionForm of the open dialog

vars == <<activeTab, yamlContent, actions, validationErrors, editorMounted,
          editorEffectDue, actionsEffectDue, escaped, event,
          builder, flow, nodes, edges, flowEffectDue,
          valIn, valOut, valPc, infIn, infOut, infPc, sqlIn, sqlOut, sqlPc,
          s3, reader, form>>

homeVars == <<activeTab, yamlContent, actions, validationErrors, editorMounted,
              editorEffectDue, actionsEffectDue, escaped, event,
              builder, flow, nodes, edges, flowEffectDue>>
viewVars == <<builder, flow, nodes, edges>>
valVars == <<valIn, valOut, valPc>>
infVars == <<infIn, infOut, infPc>>
sqlVars == <<sqlIn, sqlOut, sqlPc>>
pageVars == <<s3, reader, form>>

----------------------------------------------------------------------------
(* Bounds *)

MaxRecs == 2        \* longest generated record list given to findRelationships
MaxEntries == 2     \* longest generated `actions` sequence given to validateYaml

----------------------------------------------------------------------------
(* Strings *)

sExtract == <<"E","x","t","r","a","c","t">>
sExecute == <<"E","x","e","c","u","t","e">>
sTransform == <<"T","r","a","n","s","f","o","r","m">>
sLoad == <<"L","o","a","d">>
sMerge == <<"M","e","r","g","e">>
sPurge == <<"P","u","r","g","e">>
sS3Replicate == <<"S","3","R","e","p","l","i","c","a","t","e">>
sInclude == <<"I","n","c","l","u","d","e">>
sUndefined == <<"u","n","d","e","f","i","n","e","d">>
sNull == <<"n","u","l","l">>

\* String.prototype.includes for an argument that is already a string
includes(s, sub) ==
    \E i \in 0..(Len(s) - Len(sub)) : SubSeq(s, i + 1, i + Len(sub)) = sub

----------------------------------------------------------------------------
(* Values *)

FieldNames == {"action", "name", "dataframe", "location", "tableName", "databaseName",
               "script", "output", "transformations", "destination", "sources",
               "target", "source", "path"}

StrItem(c) == [s |-> TRUE, c |-> c]
NumItem(c) == [s |-> FALSE, c |-> c]

Absent == [t |-> "absent", v |-> <<>>]
NullV == [t |-> "null", v |-> <<>>]
Str(c) == [t |-> "str", v |-> <<StrItem(c)>>]
Num(c) == [t |-> "num", v |-> <<NumItem(c)>>]
SeqV(items) == [t |-> "seq", v |-> items]

\* JavaScript truthiness: undefined, null, "" and 0 are falsy; every array is truthy
Falsy(val) ==
    \/ val.t \in {"absent", "null"}
    \/ val.t = "str" /\ val.v[1].c = <<>>
    \/ val.t = "num" /\ val.v[1].c = <<"0">>

RECURSIVE JoinItems(_)
JoinItems(items) ==
    IF items = <<>> THEN <<>>
    ELSE IF Len(items) = 1 THEN items[1].c
    ELSE items[1].c \o <<",">> \o JoinItems(Tail(items))

\* ToString, as String.prototype.includes applies it to its argument
ToStr(val) ==
    CASE val.t = "absent" -> sUndefined
      [] val.t = "null" -> sNull
      [] val.t = "seq" -> JoinItems(val.v)
      [] OTHER -> val.v[1].c

\* the === operator on two values held by different objects
StrictEquals(a, b) ==
    /\ a.t = b.t
    /\ a.t \in {"absent", "null", "str", "num"}
    /\ a.v = b.v

EmptyObject == [f \in FieldNames |-> Absent]

\* an entry of a sequence: a mapping, a null or a scalar
MapEntry(obj) == [e |-> "map", f |-> obj]
NullEntry == [e |-> "null", f |-> EmptyObject]
ScalarEntry == [e |-> "scalar", f |-> EmptyObject]

\* property read entry[key]; on null it throws, on a scalar it is undefined
Get(entry, key) == entry.f[key]

Keys(entry) == {k \in FieldNames : entry.f[k] # Absent}

----------------------------------------------------------------------------
(* Schema registry *)

Definition(name, props) == [name |-> name, mandatoryProps |-> props]

actionDefinitions == <<
    Definition(sExtract, <<"action", "name", "dataframe", "location">>),
    Definition(sExecute, <<"action", "name", "dataframe", "script">>),
    Definition(sTransform, <<"action", "name", "dataframe", "transformations">>),
    Definition(sLoad, <<"action", "name", "dataframe", "destination">>),
    Definition(sMerge, <<"action", "name", "dataframe", "sources">>),
    Definition(sPurge, <<"action", "name", "dataframe", "target">>),
    Definition(sS3Replicate, <<"action", "name", "dataframe", "source", "destination">>),
    Definition(sInclude, <<"action", "name", "dataframe", "path">>) >>

\* actionDefinitions.find((def) => def.name === actionType): the matching indices
FindDefinition(actionType) ==
    {d \in 1..Len(actionDefinitions) : StrictEquals(Str(actionDefinitions[d].name), actionType)}

----------------------------------------------------------------------------
(* Documents and their text *)

\* the value of the top-level `actions` key
NoActions == [t |-> "absent", items |-> <<>>]
ActionsNull == [t |-> "null", items |-> <<>>]
ActionsStr == [t |-> "str", items |-> <<>>]
ActionsMap == [t |-> "map", items |-> <<>>]
ActionsSeq(items) == [t |-> "seq", items |-> items]

\* a parsed document: undefined, a scalar, or a mapping
Undefined == [k |-> "undefined", actions |-> NoActions]
NullData == [k |-> "null", actions |-> NoActions]
ScalarData == [k |-> "scalar", actions |-> NoActions]
MapData(a) == [k |-> "map", actions |-> a]

\* a text: the empty string, text the deserializer rejects, or the text of a
\* document in the layout yaml.dump produces (0) or in another layout (1)
EmptyText == [form |-> "empty", data |-> Undefined, layout |-> 0]
BadText == [form |-> "bad", data |-> Undefined, layout |-> 1]
DocText(d, l) == [form |-> "doc", data |-> d, layout |-> l]

\* yaml.load: throws on malformed text, undefined for the empty text
yamlLoad(content) ==
    IF content.form = "bad" THEN [threw |-> TRUE, data |-> Undefined]
    ELSE [threw |-> FALSE, data |-> content.data]

\* yaml.dump(data, { lineWidth: -1 })
yamlDump(d) == DocText(d, 0)

stringifyYaml(d) == yamlDump(d)

----------------------------------------------------------------------------
(* Record validator *)

Error(kind, index, tag, prop) == [kind |-> kind, index |-> index, tag |-> tag, prop |-> prop]
NoActionsError == Error("noActionsArray", -1, <<>>, "")
ParsingError == Error("parsingError", -1, <<>>, "")
MissingActionError(index) == Error("missingAction", index, <<>>, "")
UnknownTypeError(tag, index) == Error("unknownType", index, tag, "")
MissingPropError(tag, index, prop) == Error("missingProp", index, tag, prop)

\* definition.mandatoryProps.forEach((prop) => ...)
RECURSIVE CheckMandatory(_, _, _, _)
CheckMandatory(action, index, props, errors) ==
    IF props = <<>> THEN errors
    ELSE LET prop == Head(props)
             missing == prop # "action" /\ Falsy(Get(action, prop))
         IN  CheckMandatory(action, index, Tail(props),
                 IF missing
                 THEN Append(errors, MissingPropError(ToStr(Get(action, "action")), index, prop))
                 ELSE errors)

\* the callback of data.actions.forEach for one entry; reading a property of
\* null throws a TypeError
ValidateAction(action, index, errors) ==
    IF action.e = "null" THEN [errors |-> errors, threw |-> TRUE]
    ELSE IF Falsy(Get(action, "action"))
    THEN [errors |-> Append(errors, MissingActionError(index)), threw |-> FALSE]
    ELSE LET actionType == Get(action, "action")
             found == FindDefinition(actionType)
         IN  IF found = {}
             THEN [errors |-> Append(errors, UnknownTypeError(ToStr(actionType), index)),
                   threw |-> FALSE]
             ELSE LET definition == actionDefinitions[CHOOSE d \in found : \A o \in found : d <= o]
                  IN  [errors |-> CheckMandatory(action, index, definition.mandatoryProps, errors),
                       threw |-> FALSE]

\* data.actions.forEach((action, index) => ...), from position index on
RECURSIVE ValidateActions(_, _, _)
ValidateActions(items, index, errors) ==
    IF index >= Len(items) THEN [errors |-> errors, threw |-> FALSE]
    ELSE LET r == ValidateAction(items[index + 1], index, errors)
         IN  IF r.threw THEN r ELSE ValidateActions(items, index + 1, r.errors)

\* the guard !data || !data.actions || !Array.isArray(data.actions)
NotAnActionsArray(data) ==
    \/ data.k \in {"undefined", "null"}
    \/ data.actions.t \in {"absent", "null"}
    \/ data.actions.t # "seq"

\* the body of the try block
ValidateBody(content) ==
    LET loaded == yamlLoad(content)
        data == loaded.data
    IN  IF loaded.threw
        THEN [errors |-> <<>>, data |-> NullData, threw |-> TRUE]
        ELSE IF NotAnActionsArray(data)
        THEN [errors |-> <<NoActionsError>>, data |-> NullData, threw |-> FALSE]
        ELSE LET r == ValidateActions(data.actions.items, 0, <<>>)
             IN  [errors |-> r.errors, data |-> data, threw |-> r.threw]

\* mutant: the exception is thrown on, as parseYaml does
CatchRethrows(r) == r

\* the catch block: the exception becomes one more error and a null document
CatchParsingError(r) ==
    IF r.threw
    THEN [errors |-> Append(r.errors, ParsingError), data |-> NullData, threw |-> FALSE]
    ELSE r

validateYaml(content) == CatchParsingError(ValidateBody(content))

----------------------------------------------------------------------------
(* validateYaml applied to generated texts *)

With(obj, key, val) == [obj EXCEPT ![key] = val]

sFoo == <<"F","o","o">>

ValTags == {Absent, Str(<<>>), Str(sExtract), Str(sTransform), Str(sFoo)}
ValNames == {Absent, Str(<<"a">>)}
ValPayloads == { <<Absent, Absent>>,
                 <<Str(<<>>), SeqV(<<>>)>>,
                 <<Str(<<"p">>), SeqV(<<StrItem(<<"q">>)>>)>>,
                 <<Str(<<"p">>), SeqV(<<>>)>>,
                 <<Absent, SeqV(<<StrItem(<<"q">>)>>)>> }

ValObjects ==
    { With(With(With(With(With(EmptyObject, "action", a), "name", n),
                     "dataframe", Str(<<"x">>)), "location", p[1]), "transformations", p[2]) :
        a \in ValTags, n \in ValNames, p \in ValPayloads }

ValEntries == {NullEntry, ScalarEntry} \cup {MapEntry(o) : o \in ValObjects}

SeqsUpTo(S, n) == UNION {[1..m -> S] : m \in 0..n}

ValDocs ==
    {Undefined, NullData, ScalarData, MapData(NoActions), MapData(ActionsNull),
     MapData(ActionsStr), MapData(ActionsMap)}
    \cup {MapData(ActionsSeq(items)) : items \in SeqsUpTo(ValEntries, MaxEntries)}

ValTexts == {EmptyText, BadText} \cup {DocText(d, 1) : d \in ValDocs \ {Undefined}}

NoResult == [errors |-> <<>>, data |-> NullData, threw |-> FALSE]

HomeIdle ==
    /\ activeTab = "action-builder"
    /\ yamlContent = EmptyText
    /\ actions = <<>>
    /\ validationErrors = <<>>
    /\ editorMounted = FALSE
    /\ editorEffectDue = FALSE
    /\ actionsEffectDue = FALSE
    /\ escaped = FALSE
    /\ event = [kind |-> "none", content |-> EmptyText, before |-> <<>>,
                 index |-> -1, to |-> -1]
    /\ builder = [isDialogOpen |-> FALSE, editIndex |-> -1]
    /\ flow = [isEditDialogOpen |-> FALSE, isAddDialogOpen |-> FALSE,
                editIndex |-> -1, insertPosition |-> -1]
    /\ nodes = <<>>
    /\ edges = <<>>
    /\ flowEffectDue = FALSE

ValIdle == valIn = EmptyText /\ valOut = NoResult /\ valPc = "idle"
InfIdle == infIn = <<>> /\ infOut = <<>> /\ infPc = "idle"

\* an options bag: the language it sets, if any
NoOptions == [language |-> "unset"]

NoSqlInput == [text |-> <<>>, action |-> NullEntry, options |-> NoOptions]

NoSqlResult ==
    [detect |-> FALSE,
     formatted |-> [value |-> Str(<<>>), threw |-> FALSE],
     validation |-> [isValid |-> TRUE, errors |-> <<>>, warnings |-> <<>>],
     properties |-> <<>>,
     autoFormat |-> [result |-> NullEntry, input |-> NullEntry],
     inAction |-> [isValid |-> TRUE, errors |-> <<>>, warnings |-> <<>>,
                   sqlProperties |-> <<>>]]

SqlIdle == sqlIn = NoSqlInput /\ sqlOut = NoSqlResult /\ sqlPc = "idle"

\* useState(false), useState(""), useState(false) of Home; no upload started
S3Initial ==
    [isS3UploadDialogOpen |-> FALSE, s3FileName |-> <<>>, isUploading |-> FALSE,
     uploading |-> FALSE, fileName |-> <<>>]

\* no file is being read
NoFile == [reading |-> FALSE, content |-> EmptyText]

\* no dialog with an ActionForm is open
NoForm ==
    [stage |-> "none", initialAction |-> [e |-> "null", f |-> <<>>],
     actionType |-> [t |-> "absent", v |-> <<>>], formData |-> <<>>,
     selectedOptionalProps |-> <<>>, customProps |-> <<>>,
     sqlValidation |-> [isValid |-> TRUE, errors |-> <<>>, warnings |-> <<>>,
                        sqlProperties |-> <<>>],
     optionalDue |-> FALSE, formDataDue |-> FALSE, touched |-> FALSE]

PageIdle == s3 = S3Initial /\ reader = NoFile /\ form = NoForm

InitValidate ==
    /\ valIn \in ValTexts
    /\ valOut = NoResult
    /\ valPc = "ready"
    /\ HomeIdle
    /\ InfIdle
    /\ SqlIdle
    /\ PageIdle

Validate ==
    /\ valPc = "ready"
    /\ valOut' = validateYaml(valIn)
    /\ valPc' = "done"
    /\ UNCHANGED <<valIn, homeVars, infVars, sqlVars, pageVars>>

NextValidate == Validate

SpecValidate == InitValidate /\ [][NextValidate]_vars

----------------------------------------------------------------------------
(* Relationship inferencer *)

\* the node id `action-${index}`
ActionId(index) == <<"action", index>>

Relationship(sourceIndex, targetIndex) ==
    [source |-> ActionId(sourceIndex), target |-> ActionId(targetIndex)]

\* mutant: the guard against the pair (i, i) is missing
SamePairNever(sourceIndex, targetIndex) == FALSE

\* if (sourceIndex === targetIndex) return
SamePair(sourceIndex, targetIndex) == sourceIndex = targetIndex

\* mutant: the special case for Load actions is missing
LoadNeverExcluded(targetAction, sourceDataframe) == FALSE

\* targetAction.action === "Load" && targetAction.dataframe === sourceDataframe
LoadExcluded(targetAction, sourceDataframe) ==
    /\ StrictEquals(Get(targetAction, "action"), Str(sLoad))
    /\ StrictEquals(Get(targetAction, "dataframe"), sourceDataframe)

\* mutant: the dataframe field of the target is not scanned either
EntryUsesNotDataframe(key, value, sourceDataframe) ==
    IF key = "action" \/ key = "name" \/ key = "dataframe" THEN FALSE
    ELSE IF value.t = "str" THEN includes(value.v[1].c, ToStr(sourceDataframe))
    ELSE IF value.t = "seq"
    THEN \E k \in 1..Len(value.v) :
             value.v[k].s /\ includes(value.v[k].c, ToStr(sourceDataframe))
    ELSE FALSE

\* the callback of Object.entries(targetAction).some for one key
EntryUses(key, value, sourceDataframe) ==
    IF key = "action" \/ key = "name" THEN FALSE
    ELSE IF value.t = "str" THEN includes(value.v[1].c, ToStr(sourceDataframe))
    ELSE IF value.t = "seq"
    THEN \E k \in 1..Len(value.v) :
             value.v[k].s /\ includes(value.v[k].c, ToStr(sourceDataframe))
    ELSE FALSE

UsesDataframe(targetAction, sourceDataframe) ==
    \E key \in Keys(targetAction) : EntryUses(key, Get(targetAction, key), sourceDataframe)

\* mutant: one relationship is pushed for every field that uses the dataframe
PairRelationshipsPerField(acts, sourceIndex, targetIndex) ==
    LET sourceDataframe == Get(acts[sourceIndex + 1], "dataframe")
        targetAction == acts[targetIndex + 1]
        using == {key \in Keys(targetAction) :
                     EntryUses(key, Get(targetAction, key), sourceDataframe)}
    IN  IF SamePair(sourceIndex, targetIndex) THEN <<>>
        ELSE IF LoadExcluded(targetAction, sourceDataframe) THEN <<>>
        ELSE [k \in 1..Cardinality(using) |-> Relationship(sourceIndex, targetIndex)]

\* the body of the inner forEach: the relationships pushed for one ordered pair
PairRelationships(acts, sourceIndex, targetIndex) ==
    LET sourceDataframe == Get(acts[sourceIndex + 1], "dataframe")
        targetAction == acts[targetIndex + 1]
    IN  IF SamePair(sourceIndex, targetIndex) THEN <<>>
        ELSE IF LoadExcluded(targetAction, sourceDataframe) THEN <<>>
        ELSE IF UsesDataframe(targetAction, sourceDataframe)
        THEN <<Relationship(sourceIndex, targetIndex)>>
        ELSE <<>>

\* the two nested forEach loops, from pair (sourceIndex, targetIndex) on
RECURSIVE RelationshipsFrom(_, _, _, _)
RelationshipsFrom(acts, sourceIndex, targetIndex, relationships) ==
    IF sourceIndex >= Len(acts) THEN relationships
    ELSE IF targetIndex >= Len(acts)
    THEN RelationshipsFrom(acts, sourceIndex + 1, 0, relationships)
    ELSE RelationshipsFrom(acts, sourceIndex, targetIndex + 1,
             relationships \o PairRelationships(acts, sourceIndex, targetIndex))

findRelationships(acts) == RelationshipsFrom(acts, 0, 0, <<>>)

----------------------------------------------------------------------------
(* findRelationships applied to generated record lists *)

InfTags == {Str(sExtract), Str(sLoad)}
InfDataframes == {Absent, Str(<<>>), Str(<<"a">>), Str(<<"a","d">>), Str(<<"1">>)}
InfPayloads == { <<Absent, Absent>>,
                 <<Str(<<"a">>), SeqV(<<StrItem(<<"a">>), StrItem(<<"a","d">>)>>)>>,
                 <<Str(sUndefined), Absent>>,
                 <<Absent, SeqV(<<NumItem(<<"1">>), StrItem(<<"b">>)>>)>> }

InfObjects ==
    { With(With(With(With(With(EmptyObject, "action", a), "name", Str(<<"a","1">>)),
                     "dataframe", d), "location", p[1]), "transformations", p[2]) :
        a \in InfTags, d \in InfDataframes, p \in InfPayloads }

\* [Extract "a" d1 at p, Transform "b" d2 with transformations ["select * from d1"]]
ScenarioRecords == <<
    MapEntry(With(With(With(With(EmptyObject, "action", Str(sExtract)), "name", Str(<<"a">>)),
                  "dataframe", Str(<<"d","1">>)), "location", Str(<<"p">>))),
    MapEntry(With(With(With(With(EmptyObject, "action", Str(sTransform)), "name", Str(<<"b">>)),
                  "dataframe", Str(<<"d","2">>)), "transformations",
                  SeqV(<<StrItem(<<"s","e","l","e","c","t"," ","*"," ","f","r","o","m"," ","d","1">>)>>))) >>

InfInputs ==
    {ScenarioRecords} \cup SeqsUpTo({MapEntry(o) : o \in InfObjects}, MaxRecs)

InitInfer ==
    /\ infIn \in InfInputs
    /\ infOut = <<>>
    /\ infPc = "ready"
    /\ HomeIdle
    /\ ValIdle
    /\ SqlIdle
    /\ PageIdle

Infer ==
    /\ infPc = "ready"
    /\ infOut' = findRelationships(infIn)
    /\ infPc' = "done"
    /\ UNCHANGED <<infIn, homeVars, valVars, sqlVars, pageVars>>

NextInfer == Infer

SpecInfer == InitInfer /\ [][NextInfer]_vars

----------------------------------------------------------------------------
(* Properties of findRelationships *)

InfIndices == 0..(Len(infIn) - 1)

\* the ordered pairs (source index, target index) of the result
InfEdges == {<<infOut[k].source[2], infOut[k].target[2]>> : k \in 1..Len(infOut)}

\* a string value, or a string element of a sequence value, contains the text df
FieldContains(value, df) ==
    \/ value.t = "str" /\ includes(value.v[1].c, df)
    \/ value.t = "seq" /\ \E k \in 1..Len(value.v) : value.v[k].s /\ includes(value.v[k].c, df)

\* some field of the record other than action and name contains the dataframe
\* identifier of the source record
ReferencesDataframe(target, source) ==
    /\ source.f["dataframe"].t = "str"
    /\ \E key \in Keys(target) \ {"action", "name"} :
           FieldContains(target.f[key], source.f["dataframe"].v[1].c)

IsLoadOfSameDataframe(target, source) ==
    /\ target.f["action"] = Str(sLoad)
    /\ target.f["dataframe"] = source.f["dataframe"]

\* C1: the edge (i -> j), i # j, is emitted if and only if the pair is not
\* Load-excluded and some field of records[j] other than action and name is a
\* string containing records[i].dataframe, or a sequence with a string element
\* containing it; the scenario list yields exactly the edge (0 -> 1).
C1_EdgeIffReference ==
    infPc = "done" =>
        /\ InfEdges = {<<i, j>> \in InfIndices \X InfIndices :
                          /\ i # j
                          /\ ~IsLoadOfSameDataframe(infIn[j + 1], infIn[i + 1])
                          /\ ReferencesDataframe(infIn[j + 1], infIn[i + 1])}
        /\ (infIn = ScenarioRecords => infOut = <<Relationship(0, 1)>>)

\* C2: no edge has the same record as source and target.
C2_NoSelfEdge ==
    infPc = "done" => \A k \in 1..Len(infOut) : infOut[k].source # infOut[k].target

\* a record with a field that contains its own dataframe identifier, and edges found
C2_Witness ==
    /\ infPc = "done"
    /\ infOut # <<>>
    /\ \E i \in InfIndices :
           /\ infIn[i + 1].f["action"] # Str(sLoad)
           /\ infIn[i + 1].f["dataframe"] = Str(<<"a">>)
           /\ FieldContains(infIn[i + 1].f["location"], <<"a">>)

\* C3: no edge (i -> j) when records[j] is a Load with the dataframe of records[i].
C3_LoadExclusion ==
    infPc = "done" =>
        \A i \in InfIndices, j \in InfIndices :
            (i # j /\ IsLoadOfSameDataframe(infIn[j + 1], infIn[i + 1]))
                => <<i, j>> \notin InfEdges

\* a Load with the source's dataframe whose other fields contain that identifier
C3_Witness ==
    /\ infPc = "done"
    /\ \E i \in InfIndices, j \in InfIndices :
           /\ i # j
           /\ IsLoadOfSameDataframe(infIn[j + 1], infIn[i + 1])
           /\ infIn[i + 1].f["dataframe"] = Str(<<"a">>)
           /\ FieldContains(infIn[j + 1].f["location"], <<"a">>)
           /\ FieldContains(infIn[j + 1].f["transformations"], <<"a">>)

\* C4: the result holds each ordered pair (source, target) at most once.
C4_NoDuplicateEdge ==
    infPc = "done" =>
        \A p \in 1..Len(infOut), q \in 1..Len(infOut) : p # q => infOut[p] # infOut[q]

\* an edge whose target references the source in several fields and elements
C4_Witness ==
    /\ infPc = "done"
    /\ \E i \in InfIndices, j \in InfIndices :
           /\ <<i, j>> \in InfEdges
           /\ infIn[i + 1].f["dataframe"] = Str(<<"a">>)
           /\ FieldContains(infIn[j + 1].f["location"], <<"a">>)
           /\ infIn[j + 1].f["transformations"] =
                  SeqV(<<StrItem(<<"a">>), StrItem(<<"a","d">>)>>)

----------------------------------------------------------------------------
(* Properties of validateYaml *)

\* the text parses, and to a mapping whose `actions` is a sequence
HasActionsSequence(text) ==
    text.form = "doc" /\ text.data.k = "map" /\ text.data.actions.t = "seq"

\* the text parses, but not to a mapping whose `actions` is a sequence
LacksActionsSequence(text) == text.form # "bad" /\ ~HasActionsSequence(text)

ValItems == valIn.data.actions.items
ValIndices == 0..(Len(ValItems) - 1)

ErrorCount(errors, kind, index) ==
    Cardinality({k \in 1..Len(errors) : errors[k].kind = kind /\ errors[k].index = index})

KnownTypes == {Str(actionDefinitions[d].name) : d \in 1..Len(actionDefinitions)}

RequiredFields(tag) ==
    LET d == CHOOSE d \in 1..Len(actionDefinitions) : Str(actionDefinitions[d].name) = tag
    IN  {actionDefinitions[d].mandatoryProps[k] :
            k \in 1..Len(actionDefinitions[d].mandatoryProps)} \ {"action"}

\* absent, or the empty string, or the empty sequence
AbsentOrEmpty(val) == val.t \in {"absent", "null"} \/ val = Str(<<>>) \/ val = SeqV(<<>>)

\* C5: validateYaml never throws; without an `actions` sequence it returns
\* exactly one error and a null document; when the deserializer throws it
\* returns a non-empty error list and a null document.
C5_NeverThrows ==
    valPc = "done" =>
        /\ ~valOut.threw
        /\ LacksActionsSequence(valIn) =>
               (Len(valOut.errors) = 1 /\ valOut.data = NullData)
        /\ valIn.form = "bad" =>
               (Len(valOut.errors) >= 1 /\ valOut.data = NullData)

\* the deserializer threw and validateYaml returned
C5_Witness ==
    valPc = "done" /\ valIn.form = "bad" /\ valOut.errors = <<ParsingError>>

\* C6: whenever `actions` is a sequence the parsed document is returned,
\* whatever the entries of the sequence are.
C6_DocumentReturned ==
    (valPc = "done" /\ HasActionsSequence(valIn)) => valOut.data = valIn.data

\* C7: a record whose tag is present but unknown gets exactly one "unknown
\* action type" error with its index and no missing-field error.
C7_OneUnknownTypeError ==
    (valPc = "done" /\ HasActionsSequence(valIn)) =>
        \A i \in ValIndices :
            LET entry == ValItems[i + 1]
            IN  (entry.e = "map" /\ ~Falsy(entry.f["action"])
                     /\ entry.f["action"] \notin KnownTypes)
                => /\ ErrorCount(valOut.errors, "unknownType", i) = 1
                   /\ ErrorCount(valOut.errors, "missingProp", i) = 0

\* C8: a record of a known type gets as many missing-field errors as it has
\* required fields that are absent or empty (empty string, empty sequence).
C8_MissingFieldCount ==
    (valPc = "done" /\ HasActionsSequence(valIn)) =>
        \A i \in ValIndices :
            LET entry == ValItems[i + 1]
            IN  (entry.e = "map" /\ entry.f["action"] \in KnownTypes)
                => ErrorCount(valOut.errors, "missingProp", i) =
                       Cardinality({p \in RequiredFields(entry.f["action"]) :
                                       AbsentOrEmpty(entry.f[p])})

----------------------------------------------------------------------------
(* Home page and YamlEditor: the view synchronization *)

MaxActions == 1     \* longest `actions` sequence of a text given to the text view

\* the document of initialYaml, the text YamlEditor puts into an empty editor
initialExtract ==
    With(With(With(With(With(With(EmptyObject,
        "action", Str(sExtract)),
        "name", Str(<<"f","i","r","s","t"," ","E","x","t","r","a","c","t"," ","a","c","t","i","o","n">>)),
        "dataframe", Str(<<"e","x","t","r","a","_","1">>)),
        "location", Str(<<"v","a","l","u","e">>)),
        "tableName", Str(<<"a","b","c","d">>)),
        "databaseName", Str(<<"e","f","g">>))

initialExecute ==
    With(With(With(With(With(EmptyObject,
        "action", Str(sExecute)),
        "name", Str(<<"e","x","e","c","u","t","e"," ","c","u","s","t","o","m"," ","a","c","t","i","o","n">>)),
        "script", Str(<<"a","b","c","d",".","p","y">>)),
        "dataframe", Str(<<"e","x","t","r","a","_","2">>)),
        "output", Str(<<"s","o","m","e","_","a","b","c","_","o","u","t","p","u","t","l","o","c","a","t","i","o","n">>))

initialYaml ==
    DocText(MapData(ActionsSeq(<<MapEntry(initialExtract), MapEntry(initialExecute)>>)), 1)

\* the entries of the documents a user writes or uploads
HomeEntries ==
    { MapEntry(With(With(With(With(EmptyObject, "action", Str(sLoad)), "name", Str(<<"a">>)),
                    "dataframe", Str(<<"x">>)), "destination", Str(<<"p">>))),
      MapEntry(With(With(EmptyObject, "action", Str(sFoo)), "dataframe", Str(<<"x">>))),
      NullEntry }

HomeDocs ==
    {ScalarData, MapData(NoActions)}
    \cup {MapData(ActionsSeq(items)) : items \in SeqsUpTo(HomeEntries, MaxActions)}

\* the user's own layout of a document is not the one yaml.dump produces
HomeTexts == {EmptyText, BadText} \cup {DocText(d, 1) : d \in HomeDocs}

Tabs == {"action-builder", "flow-visualizer", "yaml-editor"}

\* JavaScript null where an index is expected
Null == -1

Event(kind, content, before, index, to) ==
    [kind |-> kind, content |-> content, before |-> before, index |-> index, to |-> to]

NoEvent == Event("none", EmptyText, <<>>, Null, Null)

\* no effect is waiting to run and the page is alive: the next thing to
\* happen is a user event
Quiescent == ~editorEffectDue /\ ~actionsEffectDue /\ ~flowEffectDue /\ ~escaped

\* YamlEditor is rendered only inside the content of the active tab
EditorShown(tab) == tab = "yaml-editor"

\* ActionBuilder and FlowVisualizer are rendered only inside the content of
\* the active tab
BuilderShown(tab) == tab = "action-builder"
FlowShown(tab) == tab = "flow-visualizer"

\* useState(false), useState(null) of ActionBuilder
BuilderInitial == [isDialogOpen |-> FALSE, editIndex |-> Null]

\* useState(false), useState(null) of FlowVisualizer
FlowInitial ==
    [isEditDialogOpen |-> FALSE, isAddDialogOpen |-> FALSE,
     editIndex |-> Null, insertPosition |-> Null]

\* a modal dialog covers the page: nothing behind it can be clicked
NoDialog ==
    ~builder.isDialogOpen /\ ~flow.isEditDialogOpen /\ ~flow.isAddDialogOpen

\* mutant: a document with errors does not replace the list
ActionsAfterChangeIfValid(result, current) ==
    IF result.data # NullData /\ result.data.actions.t \notin {"absent", "null"}
           /\ result.errors = <<>>
    THEN result.data.actions.items
    ELSE current

\* mutant: a change without a document empties the list
ActionsAfterChangeOrEmpty(result, current) ==
    IF result.data # NullData /\ result.data.actions.t \notin {"absent", "null"}
    THEN result.data.actions.items
    ELSE <<>>

\* if (data && data.actions) setActions(data.actions)
ActionsAfterChange(result, current) ==
    IF result.data # NullData /\ result.data.actions.t \notin {"absent", "null"}
    THEN result.data.actions.items
    ELSE current

\* try { ... } catch (error) { console.error(...) }: whatever validateYaml
\* throws is caught inside the handler
EscapesHandler(threw) == FALSE

\* handleYamlChange(content): the state of Home after the handler and the render
\* it causes; the new onChange prop makes the effect of a shown YamlEditor run,
\* the new list makes the effect of a shown FlowVisualizer run
HandleYamlChange(content) ==
    LET result == validateYaml(content)
        listSet == ~result.threw /\ result.data # NullData
                       /\ result.data.actions.t \notin {"absent", "null"}
    IN  /\ yamlContent' = content
        /\ validationErrors' = (IF result.threw THEN validationErrors ELSE result.errors)
        /\ actions' = (IF result.threw THEN actions ELSE ActionsAfterChange(result, actions))
        /\ actionsEffectDue' = (actionsEffectDue \/ listSet)
        /\ editorEffectDue' = EditorShown(activeTab)
        /\ flowEffectDue' = (flowEffectDue \/ (listSet /\ FlowShown(activeTab)))
        /\ escaped' = (escaped \/ EscapesHandler(result.threw))
        /\ UNCHANGED viewVars

\* Tabs onValueChange: the content of the old tab is unmounted and the content
\* of the new tab is mounted with its initial state; a YamlEditor mounts with
\* editorRef.current unset, and the mounted component runs its effects once
SetActiveTab(tab) ==
    /\ Quiescent
    /\ NoDialog
    /\ tab # activeTab
    /\ activeTab' = tab
    /\ editorMounted' = FALSE
    /\ editorEffectDue' = EditorShown(tab)
    /\ builder' = BuilderInitial
    /\ flow' = FlowInitial
    /\ nodes' = <<>>
    /\ edges' = <<>>
    /\ flowEffectDue' = FlowShown(tab)
    /\ event' = Event("setActiveTab", EmptyText, actions, Null, Null)
    /\ UNCHANGED <<yamlContent, actions, validationErrors, actionsEffectDue, escaped>>
    /\ UNCHANGED <<valVars, infVars, sqlVars, pageVars>>

\* handleEditorDidMount: editorRef.current = editor
EditorDidMount ==
    /\ Quiescent
    /\ EditorShown(activeTab)
    /\ ~editorMounted
    /\ editorMounted' = TRUE
    /\ event' = Event("editorDidMount", EmptyText, actions, Null, Null)
    /\ UNCHANGED <<activeTab, yamlContent, actions, validationErrors,
                   editorEffectDue, actionsEffectDue, escaped, flowEffectDue>>
    /\ UNCHANGED <<viewVars, valVars, infVars, sqlVars, pageVars>>

\* the user changes the text in the editor: Editor onChange = handleYamlChange
EditorChange(content) ==
    /\ Quiescent
    /\ EditorShown(activeTab)
    /\ editorMounted
    /\ content # yamlContent
    /\ HandleYamlChange(content)
    /\ event' = Event("editorChange", content, actions, Null, Null)
    /\ UNCHANGED <<activeTab, editorMounted>>
    /\ UNCHANGED <<valVars, infVars, sqlVars, pageVars>>

\* handleFileUpload: reader.onload calls handleYamlChange with the file's text;
\* the upload button is behind an open dialog
FileUpload(content) ==
    /\ Quiescent
    /\ NoDialog
    /\ HandleYamlChange(content)
    /\ event' = Event("fileUpload", content, actions, Null, Null)
    /\ UNCHANGED <<activeTab, editorMounted>>
    /\ UNCHANGED <<valVars, infVars, sqlVars, pageVars>>

\* YamlEditor, "Set initial value if empty": runs after every render that
\* changed value or onChange
EditorInitialValueEffect ==
    /\ editorEffectDue
    /\ IF yamlContent.form = "empty" /\ editorMounted
       THEN HandleYamlChange(initialYaml)
       ELSE /\ editorEffectDue' = FALSE
            /\ UNCHANGED <<yamlContent, actions, validationErrors, actionsEffectDue,
                           escaped, flowEffectDue, viewVars>>
    /\ UNCHANGED <<activeTab, editorMounted, event>>
    /\ UNCHANGED <<valVars, infVars, sqlVars, pageVars>>

\* Home, "Update YAML content when actions change"; a parent's effect runs
\* after the effects of its children
ActionsEffect ==
    /\ actionsEffectDue
    /\ ~editorEffectDue
    /\ ~flowEffectDue
    /\ actionsEffectDue' = FALSE
    /\ IF Len(actions) > 0
       THEN LET yaml == stringifyYaml(MapData(ActionsSeq(actions)))
            IN  /\ yamlContent' = yaml
                /\ editorEffectDue' = (yaml # yamlContent /\ EditorShown(activeTab))
       ELSE UNCHANGED <<yamlContent, editorEffectDue>>
    /\ UNCHANGED <<activeTab, actions, validationErrors, editorMounted, escaped, event,
                   flowEffectDue>>
    /\ UNCHANGED <<viewVars, valVars, infVars, sqlVars, pageVars>>

----------------------------------------------------------------------------
(* ActionBuilder and FlowVisualizer: the list edits and the derived graph *)

MaxList == 2        \* longest list an append or an insert is applied to, plus one

\* the record ActionForm hands to onSave
FormRecords ==
    { MapEntry(With(With(With(With(EmptyObject, "action", Str(sExtract)), "name", Str(<<"b">>)),
                    "dataframe", Str(<<"p">>)), "location", Str(<<"x">>))) }

\* an empty slot of a JavaScript array
HoleEntry == [e |-> "hole", f |-> EmptyObject]

HasHole(list) == \E k \in 1..Len(list) : list[k] = HoleEntry

Min(a, b) == IF a < b THEN a ELSE b

\* Array.prototype.splice(start, deleteCount, ...items) for 0 <= start: the
\* array after the call
splice(list, start, deleteCount, items) ==
    LET from == Min(start, Len(list))
        count == Min(deleteCount, Len(list) - from)
    IN  SubSeq(list, 1, from) \o items \o SubSeq(list, from + count + 1, Len(list))

\* list[index] = value: an index past the end leaves empty slots before it
AssignAt(list, index, value) ==
    [k \in 1..(IF index < Len(list) THEN Len(list) ELSE index + 1) |->
        IF k = index + 1 THEN value
        ELSE IF k <= Len(list) THEN list[k]
        ELSE HoleEntry]

\* setActions(newActions) from ActionBuilder or FlowVisualizer: Home renders
\* again, the effects that depend on `actions` are due; a list with an empty
\* slot gives React Flow an undefined node, which ends the page
SetActions(newActions) ==
    /\ actions' = newActions
    /\ escaped' = (escaped \/ HasHole(newActions))
    /\ actionsEffectDue' = ~HasHole(newActions)
    /\ flowEffectDue' = (FlowShown(activeTab) /\ ~HasHole(newActions))
    /\ UNCHANGED <<activeTab, yamlContent, validationErrors, editorMounted, editorEffectDue>>
    /\ UNCHANGED <<valVars, infVars, sqlVars, pageVars>>

\* a handler that only changes the state of ActionBuilder or FlowVisualizer
KeepsHome ==
    /\ UNCHANGED <<activeTab, yamlContent, actions, validationErrors, editorMounted,
                   editorEffectDue, actionsEffectDue, escaped, flowEffectDue>>
    /\ UNCHANGED <<valVars, infVars, sqlVars, pageVars>>

\* ActionBuilder.handleAddAction
BuilderAddAction ==
    /\ Quiescent /\ BuilderShown(activeTab) /\ NoDialog
    /\ builder' = [isDialogOpen |-> TRUE, editIndex |-> Null]
    /\ event' = Event("builderAdd", EmptyText, actions, Null, Null)
    /\ UNCHANGED <<flow, nodes, edges>>
    /\ KeepsHome

\* ActionBuilder.handleEditAction(action, index), from the card of record index
BuilderEditAction(index) ==
    /\ Quiescent /\ BuilderShown(activeTab) /\ NoDialog
    /\ index \in 0..(Len(actions) - 1)
    /\ builder' = [isDialogOpen |-> TRUE, editIndex |-> index]
    /\ event' = Event("builderEdit", EmptyText, actions, index, Null)
    /\ UNCHANGED <<flow, nodes, edges>>
    /\ KeepsHome

\* ActionBuilder.handleDeleteAction(index), from the card of record index
BuilderDeleteAction(index) ==
    /\ Quiescent /\ BuilderShown(activeTab) /\ NoDialog
    /\ index \in 0..(Len(actions) - 1)
    /\ SetActions(splice(actions, index, 1, <<>>))
    /\ event' = Event("builderDelete", EmptyText, actions, index, Null)
    /\ UNCHANGED viewVars

\* ActionBuilder.handleSaveAction(action): onSave of the ActionForm in the dialog
BuilderSaveAction(action) ==
    /\ Quiescent /\ BuilderShown(activeTab)
    /\ builder.isDialogOpen
    /\ builder.editIndex # Null \/ Len(actions) < MaxList
    /\ SetActions(IF builder.editIndex # Null
                  THEN AssignAt(actions, builder.editIndex, action)
                  ELSE actions \o <<action>>)
    /\ builder' = [builder EXCEPT !.isDialogOpen = FALSE]
    /\ event' = Event("builderSave", EmptyText, actions, builder.editIndex, Null)
    /\ UNCHANGED <<flow, nodes, edges>>

\* ActionBuilder: onCancel of the form and onOpenChange of the dialog
BuilderCloseDialog ==
    /\ Quiescent /\ BuilderShown(activeTab)
    /\ builder.isDialogOpen
    /\ builder' = [builder EXCEPT !.isDialogOpen = FALSE]
    /\ event' = Event("builderClose", EmptyText, actions, Null, Null)
    /\ UNCHANGED <<flow, nodes, edges>>
    /\ KeepsHome

\* mutant: the destination is counted in the list before the removal
DragEndListShifted(list, sourceIndex, destinationIndex) ==
    splice(splice(list, sourceIndex, 1, <<>>),
           IF sourceIndex < destinationIndex THEN destinationIndex - 1 ELSE destinationIndex,
           0, <<list[sourceIndex + 1]>>)

\* const [movedItem] = newActions.splice(sourceIndex, 1)
\* newActions.splice(destinationIndex, 0, movedItem)
DragEndList(list, sourceIndex, destinationIndex) ==
    splice(splice(list, sourceIndex, 1, <<>>), destinationIndex, 0, <<list[sourceIndex + 1]>>)

\* ActionBuilder.handleDragEnd(result) for a drop on another position of the list
BuilderDragEnd(sourceIndex, destinationIndex) ==
    /\ Quiescent /\ BuilderShown(activeTab) /\ NoDialog
    /\ sourceIndex \in 0..(Len(actions) - 1)
    /\ destinationIndex \in 0..(Len(actions) - 1)
    /\ sourceIndex # destinationIndex
    /\ SetActions(DragEndList(actions, sourceIndex, destinationIndex))
    /\ event' = Event("dragEnd", EmptyText, actions, sourceIndex, destinationIndex)
    /\ UNCHANGED viewVars

\* Array.prototype.includes
ArrayIncludes(list, x) == \E k \in 1..Len(list) : list[k] = x

\* FlowVisualizer.findStartAndEndActions
findStartAndEndActions(acts) ==
    [startActions |-> IF Len(acts) > 0 THEN <<ActionId(0)>> ELSE <<>>,
     endActions |-> IF Len(acts) > 1 THEN <<ActionId(Len(acts) - 1)>>
                    ELSE IF Len(acts) = 1 THEN <<ActionId(0)>>
                    ELSE <<>>]

\* useState(LAYOUT_TYPES.HIERARCHICAL)
layoutType == "hierarchical"

Node(id, type, action, isStart, isEnd, index) ==
    [id |-> id, type |-> type, action |-> action, isStart |-> isStart, isEnd |-> isEnd,
     index |-> index]

Edge(id, source, target) == [id |-> id, source |-> source, target |-> target]

StartNodeId == <<"start-node", 0>>
EndNodeId == <<"end-node", 0>>

\* mutant: every record is marked by its position in the inferred edges
ActionNodesByEdges(acts, marks) ==
    LET relationships == findRelationships(acts)
    IN  [k \in 1..Len(acts) |->
            Node(ActionId(k - 1), "actionNode", acts[k],
                 ~\E r \in 1..Len(relationships) : relationships[r].target = ActionId(k - 1),
                 ~\E r \in 1..Len(relationships) : relationships[r].source = ActionId(k - 1),
                 k - 1)]

\* actions.map((action, index) => ({ id: `action-${index}`, ... }))
ActionNodes(acts, marks) ==
    [k \in 1..Len(acts) |->
        Node(ActionId(k - 1), "actionNode", acts[k],
             ArrayIncludes(marks.startActions, ActionId(k - 1)),
             ArrayIncludes(marks.endActions, ActionId(k - 1)),
             k - 1)]

\* allNodes of the nodes/edges effect
AllNodes(acts) ==
    LET marks == findStartAndEndActions(acts)
        withEnds == layoutType \in {"hierarchical", "force"}
        startNode == IF withEnds /\ Len(marks.startActions) > 0
                     THEN <<Node(StartNodeId, "startEndNode", NullEntry, FALSE, FALSE, Null)>>
                     ELSE <<>>
        endNode == IF withEnds /\ Len(marks.endActions) > 0
                   THEN <<Node(EndNodeId, "startEndNode", NullEntry, FALSE, FALSE, Null)>>
                   ELSE <<>>
    IN  startNode \o ActionNodes(acts, marks) \o endNode

\* allEdges of the nodes/edges effect
AllEdges(acts) ==
    LET marks == findStartAndEndActions(acts)
        relationships == findRelationships(acts)
        withEnds == layoutType \in {"hierarchical", "force"}
        relationshipEdges ==
            [k \in 1..Len(relationships) |->
                Edge(<<"edge", k - 1>>, relationships[k].source, relationships[k].target)]
        startEdges ==
            IF withEnds /\ Len(marks.startActions) > 0
            THEN [k \in 1..Len(marks.startActions) |->
                     Edge(<<"start-edge", k - 1>>, StartNodeId, marks.startActions[k])]
            ELSE <<>>
        endEdges ==
            IF withEnds /\ Len(marks.endActions) > 0
            THEN [k \in 1..Len(marks.endActions) |->
                     Edge(<<"end-edge", k - 1>>, marks.endActions[k], EndNodeId)]
            ELSE <<>>
    IN  relationshipEdges \o startEdges \o endEdges

\* the nodes/edges effect of FlowVisualizer: if (!actions.length) return
FlowGraph(acts, shown) ==
    IF Len(acts) = 0 THEN shown
    ELSE [nodes |-> AllNodes(acts), edges |-> AllEdges(acts)]

\* FlowVisualizer, "Generate nodes and edges from actions"
FlowEffect ==
    /\ flowEffectDue
    /\ flowEffectDue' = FALSE
    /\ LET graph == FlowGraph(actions, [nodes |-> nodes, edges |-> edges])
       IN  nodes' = graph.nodes /\ edges' = graph.edges
    /\ UNCHANGED <<activeTab, yamlContent, actions, validationErrors, editorMounted,
                   editorEffectDue, actionsEffectDue, escaped, event, builder, flow>>
    /\ UNCHANGED <<valVars, infVars, sqlVars, pageVars>>

\* FlowVisualizer.handleEditAction(action, index): onEdit of a node shown
FlowEditAction(index) ==
    /\ Quiescent /\ FlowShown(activeTab) /\ NoDialog
    /\ \E k \in 1..Len(nodes) : nodes[k].type = "actionNode" /\ nodes[k].index = index
    /\ flow' = [flow EXCEPT !.isEditDialogOpen = TRUE, !.editIndex = index]
    /\ event' = Event("flowEdit", EmptyText, actions, index, Null)
    /\ UNCHANGED <<builder, nodes, edges>>
    /\ KeepsHome

\* FlowVisualizer.handleAddAction(position), from the "Add Action" menu:
\* at the start (0), at the end (no argument) or after record index (index + 1)
FlowAddAction(position) ==
    /\ Quiescent /\ FlowShown(activeTab) /\ NoDialog
    /\ position \in {Null} \cup 0..Len(actions)
    /\ flow' = [isEditDialogOpen |-> flow.isEditDialogOpen, isAddDialogOpen |-> TRUE,
                editIndex |-> Null, insertPosition |-> position]
    /\ event' = Event("flowAdd", EmptyText, actions, position, Null)
    /\ UNCHANGED <<builder, nodes, edges>>
    /\ KeepsHome

\* FlowVisualizer.handleSaveAction(action): onSave of the form of the edit dialog
FlowSaveAction(action) ==
    /\ Quiescent /\ FlowShown(activeTab)
    /\ flow.isEditDialogOpen
    /\ flow.editIndex # Null
    /\ SetActions(AssignAt(actions, flow.editIndex, action))
    /\ flow' = [flow EXCEPT !.isEditDialogOpen = FALSE, !.editIndex = Null]
    /\ event' = Event("flowSave", EmptyText, actions, flow.editIndex, Null)
    /\ UNCHANGED <<builder, nodes, edges>>

\* FlowVisualizer.handleSaveNewAction(action): onSave of the form of the add dialog
FlowSaveNewAction(action) ==
    /\ Quiescent /\ FlowShown(activeTab)
    /\ flow.isAddDialogOpen
    /\ Len(actions) < MaxList
    /\ SetActions(IF flow.insertPosition # Null
                  THEN splice(actions, flow.insertPosition, 0, <<action>>)
                  ELSE actions \o <<action>>)
    /\ flow' = [flow EXCEPT !.isAddDialogOpen = FALSE, !.insertPosition = Null]
    /\ event' = Event("flowSaveNew", EmptyText, actions, flow.insertPosition, Null)
    /\ UNCHANGED <<builder, nodes, edges>>

\* FlowVisualizer.handleCancelEdit
FlowCancelEdit ==
    /\ Quiescent /\ FlowShown(activeTab)
    /\ flow.isEditDialogOpen
    /\ flow' = [flow EXCEPT !.isEditDialogOpen = FALSE, !.editIndex = Null]
    /\ event' = Event("flowCancelEdit", EmptyText, actions, Null, Null)
    /\ UNCHANGED <<builder, nodes, edges>>
    /\ KeepsHome

\* FlowVisualizer.handleCancelAdd
FlowCancelAdd ==
    /\ Quiescent /\ FlowShown(activeTab)
    /\ flow.isAddDialogOpen
    /\ flow' = [flow EXCEPT !.isAddDialogOpen = FALSE, !.insertPosition = Null]
    /\ event' = Event("flowCancelAdd", EmptyText, actions, Null, Null)
    /\ UNCHANGED <<builder, nodes, edges>>
    /\ KeepsHome

Init == HomeIdle /\ ValIdle /\ InfIdle /\ SqlIdle /\ PageIdle

Next ==
    \/ \E tab \in Tabs : SetActiveTab(tab)
    \/ EditorDidMount
    \/ \E content \in HomeTexts : EditorChange(content)
    \/ \E content \in HomeTexts : FileUpload(content)
    \/ EditorInitialValueEffect
    \/ ActionsEffect
    \/ FlowEffect
    \/ BuilderAddAction
    \/ \E index \in 0..MaxList : BuilderEditAction(index)
    \/ \E index \in 0..MaxList : BuilderDeleteAction(index)
    \/ \E action \in FormRecords : BuilderSaveAction(action)
    \/ BuilderCloseDialog
    \/ \E sourceIndex, destinationIndex \in 0..MaxList :
           BuilderDragEnd(sourceIndex, destinationIndex)
    \/ \E index \in 0..MaxList : FlowEditAction(index)
    \/ \E position \in {Null} \cup 0..MaxList : FlowAddAction(position)
    \/ \E action \in FormRecords : FlowSaveAction(action)
    \/ \E action \in FormRecords : FlowSaveNewAction(action)
    \/ FlowCancelEdit
    \/ FlowCancelAdd

Spec == Init /\ [][Next]_vars

----------------------------------------------------------------------------
(* The list edits applied to generated record lists *)

MaxEdit == 3        \* longest record list a move or the graph derivation is applied to

\* the records of the lists: the saved form record, an uploaded record and the
\* two records of the template
EditRecords ==
    FormRecords \cup {e \in HomeEntries : e.e = "map" /\ Get(e, "action") = Str(sLoad)}
        \cup {MapEntry(initialExtract), MapEntry(initialExecute)}

\* Home with a list built in the form view, its serialization in the text
\* view, and ActionBuilder or FlowVisualizer just mounted
InitEdit ==
    /\ activeTab \in {"action-builder", "flow-visualizer"}
    /\ actions \in SeqsUpTo(EditRecords, MaxEdit)
    /\ yamlContent = (IF Len(actions) > 0
                      THEN stringifyYaml(MapData(ActionsSeq(actions)))
                      ELSE EmptyText)
    /\ validationErrors = <<>>
    /\ editorMounted = FALSE
    /\ editorEffectDue = FALSE
    /\ actionsEffectDue = FALSE
    /\ escaped = FALSE
    /\ event = NoEvent
    /\ builder = BuilderInitial
    /\ flow = FlowInitial
    /\ nodes = <<>>
    /\ edges = <<>>
    /\ flowEffectDue = FlowShown(activeTab)
    /\ ValIdle
    /\ InfIdle
    /\ SqlIdle
    /\ PageIdle

NextEdit ==
    \/ \E sourceIndex, destinationIndex \in 0..(MaxEdit - 1) :
           BuilderDragEnd(sourceIndex, destinationIndex)
    \/ ActionsEffect
    \/ FlowEffect

SpecEdit == InitEdit /\ [][NextEdit]_vars

----------------------------------------------------------------------------
(* The text view and the file load applied to documents with faulty records *)

MaxText == 1        \* longest `actions` sequence of these documents

\* records with an unknown type, without a type, without a required field,
\* and a null entry
TextEntries ==
    { MapEntry(With(With(EmptyObject, "action", Str(sFoo)), "dataframe", Str(<<"x">>))),
      MapEntry(With(With(EmptyObject, "name", Str(<<"a">>)), "dataframe", Str(<<"x">>))),
      MapEntry(With(With(With(EmptyObject, "action", Str(sLoad)), "name", Str(<<"a">>)),
                    "dataframe", Str(<<"x">>))),
      NullEntry }

RecordTexts ==
    {DocText(MapData(ActionsSeq(items)), 1) : items \in SeqsUpTo(TextEntries, MaxText)}

\* Home after the user has opened the text view of the empty document
InitText ==
    /\ activeTab = "yaml-editor"
    /\ yamlContent = EmptyText
    /\ actions = <<>>
    /\ validationErrors = <<>>
    /\ editorMounted = FALSE
    /\ editorEffectDue = TRUE
    /\ actionsEffectDue = FALSE
    /\ escaped = FALSE
    /\ event = NoEvent
    /\ builder = BuilderInitial
    /\ flow = FlowInitial
    /\ nodes = <<>>
    /\ edges = <<>>
    /\ flowEffectDue = FALSE
    /\ ValIdle
    /\ InfIdle
    /\ SqlIdle
    /\ PageIdle

NextText ==
    \/ EditorDidMount
    \/ \E content \in RecordTexts : EditorChange(content)
    \/ \E content \in RecordTexts : FileUpload(content)
    \/ EditorInitialValueEffect
    \/ ActionsEffect

SpecText == InitText /\ [][NextText]_vars

----------------------------------------------------------------------------
(* SQL utilities: characters and regular expressions *)

LowerLetters == <<"a","b","c","d","e","f","g","h","i","j","k","l","m","n","o","p","q","r","s","t","u","v","w","x","y","z">>
UpperLetters == <<"A","B","C","D","E","F","G","H","I","J","K","L","M","N","O","P","Q","R","S","T","U","V","W","X","Y","Z">>
Digits == {"0","1","2","3","4","5","6","7","8","9"}

LowerSet == {LowerLetters[i] : i \in 1..26}
UpperSet == {UpperLetters[i] : i \in 1..26}
UpperOf == [c \in LowerSet |-> UpperLetters[CHOOSE i \in 1..26 : LowerLetters[i] = c]]
LowerOf == [c \in UpperSet |-> LowerLetters[CHOOSE i \in 1..26 : UpperLetters[i] = c]]

\* String.prototype.toUpperCase and toLowerCase, character by character
UpperChar(c) == IF c \in LowerSet THEN UpperOf[c] ELSE c
LowerChar(c) == IF c \in UpperSet THEN LowerOf[c] ELSE c
toUpperCase(s) == [i \in 1..Len(s) |-> UpperChar(s[i])]
toLowerCase(s) == [i \in 1..Len(s) |-> LowerChar(s[i])]

\* the classes \w and \s of a regular expression, and what `.` does not match
WordChars == LowerSet \cup UpperSet \cup Digits \cup {"_"}
IsWordChar(c) == c \in WordChars
IsSpace(c) == c \in {" ", "\t", "\n"}
IsLineEnd(c) == c = "\n"

\* \b between position i and position i + 1 of s (0 <= i <= Len(s))
WordBoundary(s, i) ==
    (i >= 1 /\ IsWordChar(s[i])) # (i + 1 <= Len(s) /\ IsWordChar(s[i + 1]))

\* the text w stands at position i of s
At(s, i, w) ==
    i >= 1 /\ i + Len(w) - 1 <= Len(s) /\ SubSeq(s, i, i + Len(w) - 1) = w

\* positions lo..hi of s are all white space
AllSpace(s, lo, hi) == \A k \in lo..hi : IsSpace(s[k])

\* positions lo..hi of s hold no line end
NoLineEnd(s, lo, hi) == \A k \in lo..hi : ~IsLineEnd(s[k])

\* positions lo..hi of s match \s+.*\s+
SpaceAnySpace(s, lo, hi) ==
    \E a \in lo..(hi - 1) : \E b \in (a + 1)..hi :
        AllSpace(s, lo, a) /\ NoLineEnd(s, a + 1, b - 1) /\ AllSpace(s, b, hi)

\* /FIRST\s+(SECOND|...)/ on the text u, from position i
PairAt(u, i, first, seconds) ==
    /\ At(u, i, first)
    /\ \E j \in (i + Len(first) + 1)..Len(u) :
           /\ AllSpace(u, i + Len(first), j - 1)
           /\ \E second \in seconds : At(u, j, second)

\* /\bFIRST\s+(SECOND|...)\b/i on the upper-case text u
MatchesWordPair(u, first, seconds) ==
    \E i \in 1..Len(u) :
        /\ WordBoundary(u, i - 1)
        /\ At(u, i, first)
        /\ \E j \in (i + Len(first) + 1)..Len(u) :
               /\ AllSpace(u, i + Len(first), j - 1)
               /\ \E second \in seconds :
                      At(u, j, second) /\ WordBoundary(u, j + Len(second) - 1)

\* /\bFIRST\s+.*\s+LAST\b/i on the upper-case text u
MatchesWordSpan(u, first, last) ==
    \E i \in 1..Len(u) :
        /\ WordBoundary(u, i - 1)
        /\ At(u, i, first)
        /\ \E j \in (i + Len(first) + 2)..Len(u) :
               /\ At(u, j, last)
               /\ WordBoundary(u, j + Len(last) - 1)
               /\ SpaceAnySpace(u, i + Len(first), j - 1)

\* /\bWHERE\s+.*=/i on the upper-case text u
MatchesWhereEquals(u) ==
    \E i \in 1..Len(u) :
        /\ WordBoundary(u, i - 1)
        /\ At(u, i, <<"W","H","E","R","E">>)
        /\ \E e \in (i + 6)..Len(u) :
               /\ u[e] = "="
               /\ \E a \in (i + 5)..(e - 1) :
                      AllSpace(u, i + 5, a) /\ NoLineEnd(u, a + 1, e - 1)

----------------------------------------------------------------------------
(* SQL utilities: detectSQLSyntax *)

SQL_KEYWORDS == <<
    <<"S","E","L","E","C","T">>, <<"F","R","O","M">>, <<"W","H","E","R","E">>, <<"J","O","I","N">>,
    <<"I","N","N","E","R">>, <<"L","E","F","T">>, <<"R","I","G","H","T">>, <<"O","U","T","E","R">>,
    <<"O","N">>, <<"I","N","S","E","R","T">>, <<"I","N","T","O">>, <<"V","A","L","U","E","S">>,
    <<"U","P","D","A","T","E">>, <<"S","E","T">>, <<"D","E","L","E","T","E">>, <<"C","R","E","A","T","E">>,
    <<"T","A","B","L","E">>, <<"A","L","T","E","R">>, <<"D","R","O","P">>, <<"I","N","D","E","X">>,
    <<"V","I","E","W">>, <<"P","R","O","C","E","D","U","R","E">>, <<"F","U","N","C","T","I","O","N">>, <<"T","R","I","G","G","E","R">>,
    <<"A","N","D">>, <<"O","R">>, <<"N","O","T">>, <<"I","N">>,
    <<"E","X","I","S","T","S">>, <<"B","E","T","W","E","E","N">>, <<"L","I","K","E">>, <<"I","S">>,
    <<"N","U","L","L">>, <<"O","R","D","E","R">>, <<"B","Y">>, <<"G","R","O","U","P">>,
    <<"H","A","V","I","N","G">>, <<"D","I","S","T","I","N","C","T">>, <<"C","O","U","N","T">>, <<"S","U","M">>,
    <<"A","V","G">>, <<"M","I","N">>, <<"M","A","X">>, <<"C","A","S","E">>,
    <<"W","H","E","N">>, <<"T","H","E","N">>, <<"E","L","S","E">>, <<"E","N","D">>,
    <<"A","S">>, <<"U","N","I","O","N">>, <<"I","N","T","E","R","S","E","C","T">>, <<"E","X","C","E","P","T">>,
    <<"W","I","T","H">>, <<"R","E","C","U","R","S","I","V","E">>, <<"L","I","M","I","T">>, <<"O","F","F","S","E","T">>,
    <<"T","O","P">> >>

kSELECT == <<"S","E","L","E","C","T">>
kFROM == <<"F","R","O","M">>
kWHERE == <<"W","H","E","R","E">>
kJOIN == <<"J","O","I","N">>
kON == <<"O","N">>
kINSERT == <<"I","N","S","E","R","T">>
kINTO == <<"I","N","T","O">>
kUPDATE == <<"U","P","D","A","T","E">>
kSET == <<"S","E","T">>
kDELETE == <<"D","E","L","E","T","E">>
kCREATE == <<"C","R","E","A","T","E">>
kTABLE == <<"T","A","B","L","E">>
kALTER == <<"A","L","T","E","R">>
kDROP == <<"D","R","O","P">>
kINDEX == <<"I","N","D","E","X">>
kVIEW == <<"V","I","E","W">>
kUNION == <<"U","N","I","O","N">>

\* sqlPatterns.some((pattern) => pattern.test(text))
hasPattern(text) ==
    LET u == toUpperCase(text)
    IN  \/ MatchesWordSpan(u, kSELECT, kFROM)
        \/ MatchesWordPair(u, kINSERT, {kINTO})
        \/ MatchesWordSpan(u, kUPDATE, kSET)
        \/ MatchesWordPair(u, kDELETE, {kFROM})
        \/ MatchesWordPair(u, kCREATE, {kTABLE, kVIEW, kINDEX})
        \/ MatchesWordPair(u, kALTER, {kTABLE})
        \/ MatchesWordPair(u, kDROP, {kTABLE, kVIEW, kINDEX})
        \/ MatchesWhereEquals(u)
        \/ MatchesWordSpan(u, kJOIN, kON)

\* SQL_KEYWORDS.filter((keyword) => upperText.includes(keyword)).length
keywordCount(text) ==
    LET upperText == toUpperCase(text)
    IN  Cardinality({k \in 1..Len(SQL_KEYWORDS) : includes(upperText, SQL_KEYWORDS[k])})

\* detectSQLSyntax(text) for a JavaScript value
detectSQLSyntax(val) ==
    IF Falsy(val) \/ val.t # "str" THEN FALSE
    ELSE hasPattern(val.v[1].c) \/ keywordCount(val.v[1].c) >= 2

----------------------------------------------------------------------------
(* SQL utilities: formatSQL *)

\* the dialects format() of sql-formatter knows; any other language makes it
\* throw a configuration error
SupportedLanguages == {"sql", "mysql", "postgresql"}

\* { language: "sql", ..., ...options }
MergedLanguage(options) ==
    IF options.language = "unset" THEN "sql" ELSE options.language

\* the characters the tokenizer of sql-formatter has no rule for
UnsupportedChars == {"#"}

\* the word of s that position i lies in
WordAround(s, i) ==
    LET lo == CHOOSE j \in 1..i :
                  (\A k \in j..i : IsWordChar(s[k])) /\ (j = 1 \/ ~IsWordChar(s[j - 1]))
        hi == CHOOSE j \in i..Len(s) :
                  (\A k \in i..j : IsWordChar(s[k])) /\ (j = Len(s) \/ ~IsWordChar(s[j + 1]))
    IN  SubSeq(s, lo, hi)

KeywordSet == {SQL_KEYWORDS[k] : k \in 1..Len(SQL_KEYWORDS)}
IsKeyword(word) == toUpperCase(word) \in KeywordSet

\* format(sql, options) of sql-formatter, an external library: it throws on
\* a configuration it does not accept and on a text it cannot tokenize;
\* otherwise it writes the keywords in upper case (keywordCase: "upper"; the
\* line layout it produces is left out)
format(sql, language) ==
    [threw |-> language \notin SupportedLanguages
                   \/ \E i \in 1..Len(sql) : sql[i] \in UnsupportedChars,
     text |-> [i \in 1..Len(sql) |->
                  IF IsWordChar(sql[i]) /\ IsKeyword(WordAround(sql, i))
                  THEN UpperChar(sql[i])
                  ELSE sql[i]]]

\* mutant: the failure of the formatter is passed on to the caller
CatchFormatErrorRethrows(sql) == [value |-> sql, threw |-> TRUE]

\* catch (error) { console.warn(...); return sql }
CatchFormatError(sql) == [value |-> sql, threw |-> FALSE]

\* formatSQL(sql, options) for a JavaScript value: what it returns and
\* whether it throws
formatSQL(sql, options) ==
    IF Falsy(sql) \/ sql.t # "str" THEN [value |-> sql, threw |-> FALSE]
    ELSE LET formatted == format(sql.v[1].c, MergedLanguage(options))
         IN  IF formatted.threw THEN CatchFormatError(sql)
             ELSE [value |-> Str(formatted.text), threw |-> FALSE]

----------------------------------------------------------------------------
(* SQL utilities: validateSQL *)

\* an error or a warning: its message and the text the message quotes
Message(text, arg) == [text |-> text, arg |-> arg]

When(cond, message) == IF cond THEN <<message>> ELSE <<>>

\* (sql.match(/c/g) || []).length
CountChar(sql, c) == Cardinality({i \in 1..Len(sql) : sql[i] = c})

\* (sql.match(/(?<!\\)q/g) || []).length
CountUnescaped(sql, q) ==
    Cardinality({i \in 1..Len(sql) : sql[i] = q /\ ~(i > 1 /\ sql[i - 1] = "\\")})

MinOf(S) == CHOOSE x \in S : \A y \in S : x <= y
MaxOf(S) == CHOOSE x \in S : \A y \in S : x >= y

\* String.prototype.indexOf, as a position counted from 1
IndexOf(s, sub) == MinOf({i \in 1..Len(s) : At(s, i, sub)})

\* the last position of a match of /JOIN\s+\w+/ that begins at position i,
\* 0 if there is none
JoinMatchEnd(u, i) ==
    IF ~At(u, i, kJOIN) THEN 0
    ELSE LET rest == {k \in (i + 4)..Len(u) : ~IsSpace(u[k])}
         IN  IF rest = {} THEN 0
             ELSE LET word == MinOf(rest)
                  IN  IF word = i + 4 \/ ~IsWordChar(u[word]) THEN 0
                      ELSE MaxOf({e \in word..Len(u) : \A k \in word..e : IsWordChar(u[k])})

\* upperSQL.match(/JOIN\s+\w+/g), from position `from` on
RECURSIVE JoinMatches(_, _)
JoinMatches(u, from) ==
    LET starts == {i \in from..Len(u) : JoinMatchEnd(u, i) > 0}
    IN  IF starts = {} THEN <<>>
        ELSE LET i == MinOf(starts)
             IN  <<SubSeq(u, i, JoinMatchEnd(u, i))>> \o JoinMatches(u, JoinMatchEnd(u, i) + 1)

\* the callback of joinMatches.forEach
JoinWarning(upperSQL, joinMatch) ==
    LET afterJoin == SubSeq(upperSQL, IndexOf(upperSQL, joinMatch) + Len(joinMatch),
                            Len(upperSQL))
    IN  When(~includes(afterJoin, kON) /\ ~includes(afterJoin, <<"U","S","I","N","G">>),
             Message("JOIN clause missing ON condition", joinMatch))

RECURSIVE JoinWarnings(_, _)
JoinWarnings(upperSQL, joinMatches) ==
    IF joinMatches = <<>> THEN <<>>
    ELSE JoinWarning(upperSQL, Head(joinMatches)) \o JoinWarnings(upperSQL, Tail(joinMatches))

\* /SELECT\s+(@@|GETDATE|CURRENT_|NOW)/i
SelectsBuiltin(u) ==
    \E i \in 1..Len(u) :
        PairAt(u, i, kSELECT, {<<"@","@">>, <<"G","E","T","D","A","T","E">>,
                                <<"C","U","R","R","E","N","T","_">>, <<"N","O","W">>})

\* /;\s*(DROP|DELETE|UPDATE|INSERT)/i
StatementAfterSeparator(u) ==
    \E i \in 1..Len(u) :
        /\ u[i] = ";"
        /\ \E j \in (i + 1)..Len(u) :
               /\ AllSpace(u, i + 1, j - 1)
               /\ \E word \in {kDROP, kDELETE, kUPDATE, kINSERT} : At(u, j, word)

\* /UNION\s+SELECT/i
UnionSelect(u) == \E i \in 1..Len(u) : PairAt(u, i, kUNION, {kSELECT})

\* /--\s*$/m
TrailingComment(sql) ==
    \E i \in 1..Len(sql) :
        /\ At(sql, i, <<"-","-">>)
        /\ \E j \in (i + 2)..(Len(sql) + 1) :
               /\ AllSpace(sql, i + 2, j - 1)
               /\ (j = Len(sql) + 1 \/ IsLineEnd(sql[j]))

\* /\/\*.*\*\//
BlockComment(sql) ==
    \E i \in 1..Len(sql) :
        /\ At(sql, i, <<"/","*">>)
        /\ \E j \in (i + 2)..Len(sql) :
               At(sql, j, <<"*","/">>) /\ NoLineEnd(sql, i + 2, j - 1)

\* sql.trim().endsWith(";")
EndsWithSeparator(sql) ==
    LET rest == {k \in 1..Len(sql) : ~IsSpace(sql[k])}
    IN  rest # {} /\ sql[MaxOf(rest)] = ";"

\* the errors validateSQL pushes for the text sql
SqlErrors(sql) ==
    When(format(sql, "sql").threw, Message("SQL syntax error", <<>>))
    \o When(CountChar(sql, "(") # CountChar(sql, ")"),
            Message("Unmatched parentheses in SQL statement", <<>>))
    \o When(CountUnescaped(sql, "'") % 2 # 0,
            Message("Unmatched single quotes in SQL statement", <<>>))
    \o When(CountUnescaped(sql, "\"") % 2 # 0,
            Message("Unmatched double quotes in SQL statement", <<>>))

\* the warnings validateSQL pushes for the text sql
SqlWarnings(sql) ==
    LET upperSQL == toUpperCase(sql)
    IN  When(includes(upperSQL, kSELECT) /\ ~includes(upperSQL, kFROM)
                 /\ ~SelectsBuiltin(upperSQL),
             Message("SELECT statement without FROM clause", <<>>))
        \o When(includes(upperSQL, kUPDATE) /\ includes(upperSQL, kSET)
                    /\ ~includes(upperSQL, kWHERE),
                Message("UPDATE statement without WHERE clause - this will affect all rows", <<>>))
        \o When(includes(upperSQL, kDELETE \o <<" ">> \o kFROM)
                    /\ ~includes(upperSQL, kWHERE),
                Message("DELETE statement without WHERE clause - this will delete all rows", <<>>))
        \o JoinWarnings(upperSQL, JoinMatches(upperSQL, 1))
        \o When(StatementAfterSeparator(upperSQL),
                Message("Potential SQL injection pattern detected", <<>>))
        \o When(UnionSelect(upperSQL),
                Message("Potential SQL injection pattern detected", <<>>))
        \o When(TrailingComment(sql),
                Message("Potential SQL injection pattern detected", <<>>))
        \o When(BlockComment(sql),
                Message("Potential SQL injection pattern detected", <<>>))
        \o When(includes(upperSQL, <<"*","=">>) \/ includes(upperSQL, <<"=","*">>),
                Message("Deprecated outer join syntax detected, use explicit JOIN syntax", <<>>))
        \o When(includes(sql, <<";">>) /\ ~EndsWithSeparator(sql),
                Message("Consider ending SQL statements with semicolon", <<>>))

\* mutant: a text is valid only without warnings too
IsValidWithoutFindings(errors, warnings) == Len(errors) = 0 /\ Len(warnings) = 0

\* isValid: errors.length === 0
IsValid(errors, warnings) == Len(errors) = 0

\* validateSQL(sql) for a JavaScript value
validateSQL(sql) ==
    IF Falsy(sql) \/ sql.t # "str"
    THEN [isValid |-> TRUE, errors |-> <<>>, warnings |-> <<>>]
    ELSE LET errors == SqlErrors(sql.v[1].c)
             warnings == SqlWarnings(sql.v[1].c)
         IN  [isValid |-> IsValid(errors, warnings), errors |-> errors,
              warnings |-> warnings]

----------------------------------------------------------------------------
(* SQL utilities: the SQL properties of a record *)

potentialSQLProps == <<
    <<"s","c","r","i","p","t">>, <<"q","u","e","r","y">>, <<"s","q","l">>, <<"c","o","m","m","a","n","d">>,
    <<"s","t","a","t","e","m","e","n","t">>, <<"p","r","o","c","e","d","u","r","e">>, <<"t","r","a","n","s","f","o","r","m","a","t","i","o","n">>, <<"t","r","a","n","s","f","o","r","m","a","t","i","o","n","s">>,
    <<"c","o","n","d","i","t","i","o","n">>, <<"f","i","l","t","e","r">>, <<"s","e","l","e","c","t">>, <<"w","h","e","r","e">>,
    <<"j","o","i","n">>, <<"s","u","b","q","u","e","r","y">> >>

\* the name of a key as text
KeyText ==
    "action" :> <<"a","c","t","i","o","n">> @@
    "name" :> <<"n","a","m","e">> @@
    "dataframe" :> <<"d","a","t","a","f","r","a","m","e">> @@
    "location" :> <<"l","o","c","a","t","i","o","n">> @@
    "tableName" :> <<"t","a","b","l","e","N","a","m","e">> @@
    "databaseName" :> <<"d","a","t","a","b","a","s","e","N","a","m","e">> @@
    "script" :> <<"s","c","r","i","p","t">> @@
    "output" :> <<"o","u","t","p","u","t">> @@
    "transformations" :> <<"t","r","a","n","s","f","o","r","m","a","t","i","o","n","s">> @@
    "destination" :> <<"d","e","s","t","i","n","a","t","i","o","n">> @@
    "sources" :> <<"s","o","u","r","c","e","s">> @@
    "target" :> <<"t","a","r","g","e","t">> @@
    "source" :> <<"s","o","u","r","c","e">> @@
    "path" :> <<"p","a","t","h">>

\* the keys of a record in the order Object.entries gives them
FieldOrder == <<"action", "name", "dataframe", "location", "tableName", "databaseName", "script", "output", "transformations", "destination", "sources", "target", "source", "path">>

\* a string is examined only when it is longer than this
MinSqlLength == 10

\* potentialSQLProps.some((prop) => keyLower.includes(prop))
nameContainsSQL(key) ==
    LET keyLower == toLowerCase(KeyText[key])
    IN  \E k \in 1..Len(potentialSQLProps) : includes(keyLower, potentialSQLProps[k])

\* the callback of Object.entries(action).forEach: key is pushed
PushesProperty(key, value) ==
    IF value.t = "str" /\ Len(value.v[1].c) > MinSqlLength
    THEN nameContainsSQL(key) \/ detectSQLSyntax(value)
    ELSE IF value.t = "seq"
    THEN \E k \in 1..Len(value.v) : value.v[k].s /\ detectSQLSyntax(Str(value.v[k].c))
    ELSE FALSE

\* identifySQLProperties(action)
identifySQLProperties(action) ==
    IF action.e # "map" THEN <<>>
    ELSE SelectSeq(FieldOrder,
                   LAMBDA key : action.f[key] # Absent /\ PushesProperty(key, action.f[key]))

\* value.map((item) => typeof item === "string" && detectSQLSyntax(item)
\*                         ? formatSQL(item, formatOptions) : item)
FormatItems(items, formatOptions) ==
    [k \in 1..Len(items) |->
        IF items[k].s /\ detectSQLSyntax(Str(items[k].c))
        THEN StrItem(formatSQL(Str(items[k].c), formatOptions).value.v[1].c)
        ELSE items[k]]

\* the value the callback of sqlProperties.forEach assigns to formattedAction[prop]
FormattedProperty(value, formatOptions) ==
    IF value.t = "str" THEN formatSQL(value, formatOptions).value
    ELSE IF value.t = "seq" THEN SeqV(FormatItems(value.v, formatOptions))
    ELSE value

\* mutant: formattedAction is the record it was given, not a copy of it
InputAfterFormatAliased(action, formattedAction) == formattedAction

\* const formattedAction = { ...action }: the assignments to formattedAction
\* do not reach the record given
InputAfterFormat(action, formattedAction) == action

\* autoFormatSQLInAction(action, formatOptions): the record it returns and the
\* record it was given, as it is after the call
autoFormatSQLInAction(action, formatOptions) ==
    IF action.e # "map" THEN [result |-> action, input |-> action]
    ELSE LET sqlProperties == identifySQLProperties(action)
             formattedAction ==
                 MapEntry([key \in FieldNames |->
                     IF ArrayIncludes(sqlProperties, key)
                     THEN FormattedProperty(action.f[key], formatOptions)
                     ELSE action.f[key]])
         IN  [result |-> formattedAction, input |-> InputAfterFormat(action, formattedAction)]

\* `${prop}: ${message}` and `${prop}[${index}]: ${message}`
Prefixed(prop, index, messages) ==
    [k \in 1..Len(messages) |->
        [prop |-> prop, index |-> index, text |-> messages[k].text, arg |-> messages[k].arg]]

\* the items of a sequence property, from item index on: what the callback of
\* value.forEach pushes
RECURSIVE ItemFindings(_, _, _, _)
ItemFindings(prop, items, index, kind) ==
    IF index >= Len(items) THEN <<>>
    ELSE (IF items[index + 1].s /\ detectSQLSyntax(Str(items[index + 1].c))
          THEN Prefixed(prop, index, validateSQL(Str(items[index + 1].c))[kind])
          ELSE <<>>)
         \o ItemFindings(prop, items, index + 1, kind)

\* what the callback of sqlProperties.forEach pushes for one property
PropertyFindings(action, prop, kind) ==
    LET value == action.f[prop]
    IN  IF value.t = "str" THEN Prefixed(prop, Null, validateSQL(value)[kind])
        ELSE IF value.t = "seq" THEN ItemFindings(prop, value.v, 0, kind)
        ELSE <<>>

RECURSIVE AllFindings(_, _, _)
AllFindings(action, sqlProperties, kind) ==
    IF sqlProperties = <<>> THEN <<>>
    ELSE PropertyFindings(action, Head(sqlProperties), kind)
         \o AllFindings(action, Tail(sqlProperties), kind)

\* validateSQLInAction(action)
validateSQLInAction(action) ==
    LET sqlProperties == identifySQLProperties(action)
        allErrors == AllFindings(action, sqlProperties, "errors")
        allWarnings == AllFindings(action, sqlProperties, "warnings")
    IN  [isValid |-> IsValid(allErrors, allWarnings), errors |-> allErrors,
         warnings |-> allWarnings, sqlProperties |-> sqlProperties]

----------------------------------------------------------------------------
(* The SQL utilities applied to generated texts and records *)

MaxSqlItems == 2    \* longest sequence value of a record field

\* texts given to detectSQLSyntax, formatSQL and validateSQL
SqlTexts == {
      <<>>,
      <<"x">>,
      <<"a","b","c","d",".","p","y">>,
      <<"D","R","O","P"," ","T","A","B","L","E">>,
      <<"t","r","a","n","s","f","o","r","m","a","t","i","o","n","_","1">>,
      <<"s","e","l","e","c","t"," ","*"," ","f","r","o","m"," ","d","1">>,
      <<"s","e","l","e","c","t"," ","a","\n","f","r","o","m"," ","t">>,
      <<"s","e","l","e","c","t","\n","f","r","o","m">>,
      <<"S","E","L","E","C","T"," ","1">>,
      <<"s","e","l","e","c","t"," ","n","o","w","(",")">>,
      <<"u","p","d","a","t","e"," ","t"," ","s","e","t"," ","a"," ","="," ","1">>,
      <<"d","e","l","e","t","e"," ","f","r","o","m"," ","t">>,
      <<"d","e","l","e","t","e"," ","f","r","o","m"," ","t"," ","w","h","e","r","e"," ","(","a"," ","="," ","1">>,
      <<"s","e","l","e","c","t"," ","a"," ","f","r","o","m"," ","t"," ","w","h","e","r","e"," ","b"," ","="," ","'","x">>,
      <<"s","e","l","e","c","t"," ","\"","a"," ","f","r","o","m"," ","t">>,
      <<"s","e","l","e","c","t"," ","'","a","\\","'","'"," ","f","r","o","m"," ","t">>,
      <<"s","e","l","e","c","t"," ","a"," ","f","r","o","m"," ","t"," ","j","o","i","n"," ","u">>,
      <<"s","e","l","e","c","t"," ","a"," ","f","r","o","m"," ","t"," ","j","o","i","n"," ","u"," ","o","n"," ","t",".","i"," ","="," ","u",".","i">>,
      <<"s","e","l","e","c","t"," ","a"," ","f","r","o","m"," ","t",";"," ","d","r","o","p"," ","t","a","b","l","e"," ","t">>,
      <<"s","e","l","e","c","t"," ","a"," ","f","r","o","m"," ","t"," ","u","n","i","o","n"," ","s","e","l","e","c","t"," ","b"," ","f","r","o","m"," ","u">>,
      <<"s","e","l","e","c","t"," ","a"," ","f","r","o","m"," ","t"," ","-","-">>,
      <<"s","e","l","e","c","t"," ","/","*"," ","x"," ","*","/"," ","a"," ","f","r","o","m"," ","t">>,
      <<"s","e","l","e","c","t"," ","a"," ","f","r","o","m"," ","t"," ","w","h","e","r","e"," ","a"," ","*","="," ","b">>,
      <<"s","e","l","e","c","t"," ","a"," ","f","r","o","m"," ","t",";">>,
      <<"s","e","l","e","c","t"," ","#"," ","f","r","o","m"," ","t">>,
      <<"i","n","s","e","r","t"," ","i","n","t","o"," ","t"," ","v","a","l","u","e","s"," ","(","1",")">>,
      <<"c","r","e","a","t","e"," ","v","i","e","w"," ","v">>,
      <<"a","l","t","e","r"," ","t","a","b","l","e"," ","t">>,
      <<"s","o","m","e","_","a","b","c","_","o","u","t","p","u","t","l","o","c","a","t","i","o","n">> }

tScriptFile == <<"a","b","c","d",".","p","y">>
tTransformation1 == <<"t","r","a","n","s","f","o","r","m","a","t","i","o","n","_","1">>
tSelect == <<"s","e","l","e","c","t"," ","*"," ","f","r","o","m"," ","d","1">>
tSelectHash == <<"s","e","l","e","c","t"," ","#"," ","f","r","o","m"," ","t">>
tDelete == <<"d","e","l","e","t","e"," ","f","r","o","m"," ","t">>
tDeleteOpen == <<"d","e","l","e","t","e"," ","f","r","o","m"," ","t"," ","w","h","e","r","e"," ","(","a"," ","="," ","1">>

\* option bags: none, and one that names a dialect the formatter does not know
SqlOptions == {NoOptions, [language |-> "klingon"]}

tSelectOne == <<"s","e","l","e","c","t"," ","1">>

SqlItems == {StrItem(<<"x">>), StrItem(tSelectOne), StrItem(tSelect), StrItem(tSelectHash),
             NumItem(<<"1">>)}

SqlScripts == {Absent, Str(<<>>), Str(tScriptFile), Str(tSelect), Str(tSelectHash),
               Str(tDelete), Str(tDeleteOpen)}
SqlLocations == {Absent, Num(<<"1">>), Str(tTransformation1), Str(tSelect)}
SqlTransformations ==
    {Absent} \cup {SeqV(items) : items \in SeqsUpTo(SqlItems, MaxSqlItems)}

SqlRecords ==
    { MapEntry(With(With(With(With(With(EmptyObject, "action", Str(sExecute)), "name", Str(<<"a">>)),
                         "script", s), "location", l), "transformations", t)) :
        s \in SqlScripts, l \in SqlLocations, t \in SqlTransformations }

\* the record given with the texts
PlainRecord == MapEntry(With(With(EmptyObject, "action", Str(sExecute)), "name", Str(<<"a">>)))

SqlInputs ==
    { [text |-> text, action |-> PlainRecord, options |-> options] :
        text \in SqlTexts, options \in SqlOptions }
    \cup { [text |-> tDelete, action |-> action, options |-> options] :
        action \in SqlRecords \cup {NullEntry}, options \in SqlOptions }

InitSql ==
    /\ sqlIn \in SqlInputs
    /\ sqlOut = NoSqlResult
    /\ sqlPc = "ready"
    /\ HomeIdle
    /\ ValIdle
    /\ InfIdle
    /\ PageIdle

\* the utilities applied to the text and to the record of the input
ApplySql ==
    /\ sqlPc = "ready"
    /\ sqlOut' =
           [detect |-> detectSQLSyntax(Str(sqlIn.text)),
            formatted |-> formatSQL(Str(sqlIn.text), sqlIn.options),
            validation |-> validateSQL(Str(sqlIn.text)),
            properties |-> identifySQLProperties(sqlIn.action),
            autoFormat |-> autoFormatSQLInAction(sqlIn.action, sqlIn.options),
            inAction |-> validateSQLInAction(sqlIn.action)]
    /\ sqlPc' = "done"
    /\ UNCHANGED <<sqlIn, homeVars, valVars, infVars, pageVars>>

NextSql == ApplySql

SpecSql == InitSql /\ [][NextSql]_vars

----------------------------------------------------------------------------
(* Properties of the view synchronization *)

\* parse and validate yield no document for the text
YieldsNoDocument(content) == validateYaml(content).data = NullData

\* C9: when a text-view change is handled and yields a null document, the
\* canonical list is left as it was, the errors are stored for display and
\* no exception escapes the handler.
C9_NullDocumentKeepsList ==
    [][\A content \in HomeTexts :
          ((EditorChange(content) \/ FileUpload(content)) /\ YieldsNoDocument(content))
              => /\ actions' = actions
                 /\ validationErrors' # <<>>
                 /\ validationErrors' = validateYaml(content).errors
                 /\ ~escaped']_vars

\* the handler has just stored the errors of a text without a document and
\* the list it found, a non-empty one, is still there
C9_Witness ==
    /\ event.kind = "editorChange"
    /\ YieldsNoDocument(event.content)
    /\ yamlContent = event.content
    /\ editorEffectDue
    /\ event.before # <<>>
    /\ actions = event.before
    /\ validationErrors # <<>>

\* C10: after a text-view change that does not parse and validate to a
\* document, and once the follow-up effects have run, the canonical list
\* equals the list before the change (stated for a list that holds records:
\* the text must not replace or destroy an existing document).
C10_InvalidTextKeepsList ==
    (Quiescent /\ event.kind = "editorChange" /\ YieldsNoDocument(event.content)
        /\ event.before # <<>>)
        => actions = event.before

----------------------------------------------------------------------------
(* Properties of the list edits and the derived graph *)

\* the events of ActionBuilder and FlowVisualizer that call setActions
EditKinds == {"builderDelete", "builderSave", "dragEnd", "flowSave", "flowSaveNew"}

\* C11: after an edit of the canonical list from the form view or the graph
\* view, once the effects have run, the content of the text view is the
\* serialization of the current list, the empty list included.
C11_TextFollowsEdit ==
    (Quiescent /\ event.kind \in EditKinds)
        => yamlContent = stringifyYaml(MapData(ActionsSeq(actions)))

\* the action nodes and the relationship edges the graph view holds
ShownActionNodes == SelectSeq(nodes, LAMBDA n : n.type = "actionNode")
ShownRelationships ==
    LET shown == SelectSeq(edges, LAMBDA e : e.id[1] = "edge")
    IN  [k \in 1..Len(shown) |-> [source |-> shown[k].source, target |-> shown[k].target]]

\* C12: while the graph view is mounted and the effects have run, it holds
\* exactly one action node per record of the current list, node action-k for
\* record k, and its relationship edges are those of findRelationships on the
\* current list; nothing of an earlier list remains.
C12_GraphFollowsList ==
    (Quiescent /\ FlowShown(activeTab))
        => /\ Len(ShownActionNodes) = Len(actions)
           /\ \A k \in 1..Len(ShownActionNodes) :
                  /\ ShownActionNodes[k].id = ActionId(k - 1)
                  /\ ShownActionNodes[k].action = actions[k]
           /\ ShownRelationships = findRelationships(actions)

\* C13: after a text-view change that parses and validates to a document, and
\* once the effects have run, the canonical list is that document's list and
\* the content of the text view is still the text the user entered.
C13_TextViewKeepsUserText ==
    (Quiescent /\ event.kind = "editorChange" /\ ~YieldsNoDocument(event.content))
        => /\ actions = validateYaml(event.content).data.actions.items
           /\ yamlContent = event.content

\* C14: when handleDragEnd has moved the record at index i to index j, moving
\* the record at index j back to index i gives the list before the move,
\* element by element and in order.
C14_MoveAndBackRestores ==
    event.kind = "dragEnd"
        => DragEndList(actions, event.to, event.index) = event.before

\* a record has been moved forward over at least two others and the list
\* is not the one before the move
C14_Witness ==
    /\ event.kind = "dragEnd"
    /\ event.to >= event.index + 2
    /\ actions # event.before
    /\ actions[event.to + 1] = event.before[event.index + 1]

\* C15: for a non-empty list the graph view marks record 0, and only record 0,
\* as start and the last record, and only the last record, as end, whatever
\* edges were inferred.
C15_StartAndEndMarks ==
    (FlowShown(activeTab) /\ ~flowEffectDue /\ Len(actions) > 0)
        => /\ Len(ShownActionNodes) = Len(actions)
           /\ \A k \in 1..Len(ShownActionNodes) :
                  /\ ShownActionNodes[k].isStart = (k = 1)
                  /\ ShownActionNodes[k].isEnd = (k = Len(actions))

\* the graph of a three-record list whose record 0 is the target of an
\* inferred edge and whose last record is the source of one
C15_Witness ==
    /\ FlowShown(activeTab) /\ ~flowEffectDue
    /\ Len(actions) = 3
    /\ ShownActionNodes[1].isStart /\ ShownActionNodes[3].isEnd
    /\ ~ShownActionNodes[2].isStart /\ ~ShownActionNodes[2].isEnd
    /\ \E k \in 1..Len(ShownRelationships) : ShownRelationships[k].target = ActionId(0)
    /\ \E k \in 1..Len(ShownRelationships) : ShownRelationships[k].source = ActionId(2)

----------------------------------------------------------------------------
(* Properties of the SQL utilities *)

\* some string element of a sequence value matches the query-syntax heuristics
SomeItemDetected(value) ==
    \E k \in 1..Len(value.v) : value.v[k].s /\ detectSQLSyntax(Str(value.v[k].c))

\* C16: identifySQLProperties classifies a string field exactly when its name
\* contains one of the name fragments or its value matches the query-syntax
\* heuristics, whatever the length of the value, and a sequence field exactly
\* when its name contains a fragment or one of its string elements matches;
\* nothing else of the record matters.
C16_ClassifiedByNameOrValue ==
    sqlPc = "done" =>
        \A key \in Keys(sqlIn.action) :
            LET value == Get(sqlIn.action, key)
                classified == ArrayIncludes(sqlOut.properties, key)
            IN  /\ value.t = "str"
                       => (classified <=> (nameContainsSQL(key) \/ detectSQLSyntax(value)))
                /\ value.t = "seq"
                       => (classified <=> (nameContainsSQL(key) \/ SomeItemDetected(value)))

\* the number of keywords that occur in the text as whole words
KeywordTokens(text) ==
    LET u == toUpperCase(text)
    IN  Cardinality({k \in 1..Len(SQL_KEYWORDS) :
            \E i \in 1..Len(u) :
                /\ At(u, i, SQL_KEYWORDS[k])
                /\ WordBoundary(u, i - 1)
                /\ WordBoundary(u, i + Len(SQL_KEYWORDS[k]) - 1)})

\* at least two keyword tokens, or one of the structural patterns
QueryContent(text) == KeywordTokens(text) >= 2 \/ hasPattern(text)

\* C17: detectSQLSyntax reports a text only if it holds at least two keywords
\* as whole words or matches a structural pattern; a string field whose name
\* has no fragment and whose text is not such query content is not
\* classified, so the save does not reformat it.
C17_DetectsKeywordTokens ==
    sqlPc = "done" =>
        /\ sqlOut.detect => QueryContent(sqlIn.text)
        /\ \A key \in Keys(sqlIn.action) :
               LET value == Get(sqlIn.action, key)
               IN  (value.t = "str" /\ ~nameContainsSQL(key) /\ ~QueryContent(value.v[1].c))
                       => ~ArrayIncludes(sqlOut.properties, key)

\* the messages of the checks that are errors
ErrorTexts ==
    {"SQL syntax error", "Unmatched parentheses in SQL statement",
     "Unmatched single quotes in SQL statement",
     "Unmatched double quotes in SQL statement"}

\* the formatter fails on the text, or its parentheses or its single or
\* double quotes are unmatched
HasErrorCause(text) ==
    \/ format(text, "sql").threw
    \/ CountChar(text, "(") # CountChar(text, ")")
    \/ CountUnescaped(text, "'") % 2 = 1
    \/ CountUnescaped(text, "\"") % 2 = 1

\* the texts validateSQLInAction validates: the classified string fields and
\* the detected string elements of the classified sequence fields
ValidatedTexts(action, sqlProperties) ==
    {Get(action, key).v[1].c :
        key \in {k \in Keys(action) : ArrayIncludes(sqlProperties, k) /\ Get(action, k).t = "str"}}
    \cup UNION {{Get(action, key).v[i].c :
                    i \in {j \in 1..Len(Get(action, key).v) :
                              /\ Get(action, key).v[j].s
                              /\ detectSQLSyntax(Str(Get(action, key).v[j].c))}} :
                key \in {k \in Keys(action) :
                            ArrayIncludes(sqlProperties, k) /\ Get(action, k).t = "seq"}}

\* C18: validateSQL returns valid exactly when its error list is empty; the
\* list holds an error exactly when the formatter fails or the parentheses
\* or the quotes are unmatched, and every error is of one of these kinds, so
\* the warnings never change `valid`. The same holds for validateSQLInAction
\* over the texts of the classified fields.
C18_ValidIffNoErrors ==
    sqlPc = "done" =>
        /\ sqlOut.validation.isValid <=> (sqlOut.validation.errors = <<>>)
        /\ sqlOut.validation.isValid <=> ~HasErrorCause(sqlIn.text)
        /\ \A k \in 1..Len(sqlOut.validation.errors) :
               sqlOut.validation.errors[k].text \in ErrorTexts
        /\ \A k \in 1..Len(sqlOut.validation.warnings) :
               sqlOut.validation.warnings[k].text \notin ErrorTexts
        /\ sqlOut.inAction.isValid <=> (sqlOut.inAction.errors = <<>>)
        /\ sqlIn.action.e = "map" =>
               (sqlOut.inAction.isValid
                    <=> \A text \in ValidatedTexts(sqlIn.action, sqlOut.properties) :
                            ~HasErrorCause(text))
        /\ \A k \in 1..Len(sqlOut.inAction.errors) :
               sqlOut.inAction.errors[k].text \in ErrorTexts
        /\ \A k \in 1..Len(sqlOut.inAction.warnings) :
               sqlOut.inAction.warnings[k].text \notin ErrorTexts

\* a text and a record field that get a warning and no error, and are valid
C18_Witness ==
    /\ sqlPc = "done"
    /\ sqlOut.validation.warnings # <<>> /\ sqlOut.validation.errors = <<>>
    /\ sqlOut.validation.isValid
    /\ sqlOut.inAction.warnings # <<>> /\ sqlOut.inAction.errors = <<>>
    /\ sqlOut.inAction.isValid
    /\ sqlOut.inAction.sqlProperties # <<>>

\* the formatter fails on the text under the options given
FormatterRejects(text, options) == format(text, MergedLanguage(options)).threw

\* C19: formatSQL never throws; when the formatter fails on a non-empty
\* text the result is the text as given, and a classified field (or a
\* detected element of a classified sequence field) whose text the formatter
\* rejects is the same in the record autoFormatSQLInAction returns.
C19_FormatNeverThrows ==
    sqlPc = "done" =>
        /\ ~sqlOut.formatted.threw
        /\ FormatterRejects(sqlIn.text, sqlIn.options)
               => sqlOut.formatted.value = Str(sqlIn.text)
        /\ \A key \in Keys(sqlIn.action) :
               LET value == Get(sqlIn.action, key)
                   saved == Get(sqlOut.autoFormat.result, key)
               IN  /\ ~formatSQL(value, sqlIn.options).threw
                   /\ (value.t = "str" /\ FormatterRejects(value.v[1].c, sqlIn.options))
                          => saved = value
                   /\ value.t = "seq" =>
                          /\ saved.t = "seq" /\ Len(saved.v) = Len(value.v)
                          /\ \A k \in 1..Len(value.v) :
                                 /\ ~formatSQL(Str(value.v[k].c), sqlIn.options).threw
                                 /\ (value.v[k].s /\ FormatterRejects(value.v[k].c, sqlIn.options))
                                        => saved.v[k] = value.v[k]

\* the formatter rejects a text that it would otherwise rewrite, given alone
\* and as a classified field of the record
C19_Witness ==
    /\ sqlPc = "done"
    /\ FormatterRejects(sqlIn.text, sqlIn.options)
    /\ format(sqlIn.text, "sql").text # sqlIn.text
    /\ sqlOut.formatted = [value |-> Str(sqlIn.text), threw |-> FALSE]
    /\ \E key \in Keys(sqlIn.action) :
           /\ ArrayIncludes(sqlOut.properties, key)
           /\ Get(sqlIn.action, key).t = "str"
           /\ FormatterRejects(Get(sqlIn.action, key).v[1].c, sqlIn.options)
           /\ Get(sqlOut.autoFormat.result, key) = Get(sqlIn.action, key)

\* C20: autoFormatSQLInAction leaves the record it is given as it was; the
\* record it returns has the same field names, and every field that
\* identifySQLProperties does not classify has the value it has in the input.
C20_FormatsOnlyClassified ==
    sqlPc = "done" =>
        /\ sqlOut.autoFormat.input = sqlIn.action
        /\ sqlOut.autoFormat.result.e = sqlIn.action.e
        /\ Keys(sqlOut.autoFormat.result) = Keys(sqlIn.action)
        /\ \A key \in Keys(sqlIn.action) :
               ~ArrayIncludes(sqlOut.properties, key)
                   => Get(sqlOut.autoFormat.result, key) = Get(sqlIn.action, key)

\* a record with a classified field that is rewritten and an unclassified
\* string field next to it
C20_Witness ==
    /\ sqlPc = "done"
    /\ sqlOut.autoFormat.input = sqlIn.action
    /\ sqlOut.autoFormat.result # sqlIn.action
    /\ \E key \in Keys(sqlIn.action) :
           /\ ArrayIncludes(sqlOut.properties, key)
           /\ Get(sqlOut.autoFormat.result, key) # Get(sqlIn.action, key)
    /\ \E key \in Keys(sqlIn.action) \ {"action", "name"} :
           /\ ~ArrayIncludes(sqlOut.properties, key)
           /\ Get(sqlOut.autoFormat.result, key) = Get(sqlIn.action, key)

\* C21: in the record autoFormatSQLInAction returns, a classified string
\* field holds formatSQL of its value and a classified sequence field holds
\* formatSQL of each of its string elements, whether or not the element
\* itself matches the query-syntax heuristics.
C21_EveryElementFormatted ==
    sqlPc = "done" =>
        \A key \in Keys(sqlIn.action) :
            LET value == Get(sqlIn.action, key)
                saved == Get(sqlOut.autoFormat.result, key)
            IN  ArrayIncludes(sqlOut.properties, key) =>
                    /\ value.t = "str" => saved = formatSQL(value, sqlIn.options).value
                    /\ value.t = "seq" =>
                           /\ saved.t = "seq" /\ Len(saved.v) = Len(value.v)
                           /\ \A k \in 1..Len(value.v) :
                                  value.v[k].s =>
                                      Str(saved.v[k].c)
                                          = formatSQL(Str(value.v[k].c), sqlIn.options).value

----------------------------------------------------------------------------
(* Further properties of findRelationships *)

\* the two records carry the same dataframe identifier, a string
SameDataframe(i, j) ==
    /\ infIn[i + 1].f["dataframe"].t = "str"
    /\ infIn[i + 1].f["dataframe"] = infIn[j + 1].f["dataframe"]

IsLoad(i) == infIn[i + 1].f["action"] = Str(sLoad)

\* C29: the result never holds both the edge (i -> j) and the edge (j -> i).
C29_Antisymmetric ==
    infPc = "done" =>
        \A i \in InfIndices, j \in InfIndices :
            ~(<<i, j>> \in InfEdges /\ <<j, i>> \in InfEdges)

\* C29, amended: between two records that carry the same dataframe identifier
\* the edge (i -> j) is returned exactly when record j is not a Load, so the
\* result is antisymmetric on the pair when one of the two is a Load and
\* holds both edges when neither is.
C29_SameDataframeEdges ==
    infPc = "done" =>
        \A i \in InfIndices, j \in InfIndices :
            (i # j /\ SameDataframe(i, j)) => (<<i, j>> \in InfEdges <=> ~IsLoad(j))

\* two records that are not Loads carry the same dataframe identifier, which
\* no other field of either holds, and both edges are returned
C29_Witness ==
    /\ infPc = "done"
    /\ Len(infIn) = 2
    /\ SameDataframe(0, 1) /\ infIn[1].f["dataframe"] = Str(<<"a","d">>)
    /\ ~IsLoad(0) /\ ~IsLoad(1)
    /\ infIn[1].f["location"] = Absent /\ infIn[2].f["location"] = Absent
    /\ InfEdges = {<<0, 1>>, <<1, 0>>}

\* C30: a record whose dataframe field is absent or the empty string is never
\* the source of an edge.
C30_NoEdgeWithoutDataframe ==
    infPc = "done" =>
        \A i \in InfIndices :
            infIn[i + 1].f["dataframe"] \in {Absent, Str(<<>>)}
                => \A j \in InfIndices : <<i, j>> \notin InfEdges

----------------------------------------------------------------------------
(* Properties of the text view on documents with faulty records *)

RecordLevelKinds == {"unknownType", "missingAction", "missingProp"}

\* validation yields a document whose `actions` is a sequence, and reports
\* an error about one of its records
ReportsRecordErrors(content) ==
    LET result == validateYaml(content)
    IN  /\ result.data # NullData
        /\ result.data.actions.t = "seq"
        /\ \E k \in 1..Len(result.errors) : result.errors[k].kind \in RecordLevelKinds

\* C24: when a text-view change is handled that yields a document whose
\* `actions` is a sequence while validation reports record-level errors, the
\* canonical list becomes the parsed sequence and all reported errors are
\* stored for display.
C24_RecordErrorsKeepEdit ==
    [][\A content \in RecordTexts :
          ((EditorChange(content) \/ FileUpload(content)) /\ ReportsRecordErrors(content))
              => /\ actions' = content.data.actions.items
                 /\ validationErrors' = validateYaml(content).errors
                 /\ validationErrors' # <<>>]_vars

\* the handler has just replaced a list that held a record by the record of
\* a document for which an error is reported
C24_Witness ==
    /\ event.kind \in {"editorChange", "fileUpload"}
    /\ ReportsRecordErrors(event.content)
    /\ yamlContent = event.content
    /\ event.before # <<>>
    /\ actions = event.content.data.actions.items
    /\ actions # event.before
    /\ actions # <<>>
    /\ validationErrors = validateYaml(event.content).errors
    /\ validationErrors # <<>>

\* the entry is a mapping with a non-empty string `action` tag
HasActionTag(entry) ==
    /\ entry.e = "map"
    /\ Get(entry, "action").t = "str"
    /\ Get(entry, "action") # Str(<<>>)

\* C28: every entry of the canonical list is a mapping with a non-empty
\* string `action` tag.
C28_EveryEntryTagged ==
    \A k \in 1..Len(actions) : HasActionTag(actions[k])

----------------------------------------------------------------------------
(* Properties of the list edits *)

\* the list without its element at index i
RemoveAt(list, i) ==
    [k \in 1..(Len(list) - 1) |-> IF k <= i THEN list[k] ELSE list[k + 1]]

\* the list with x as its new element at index p
InsertAt(list, p, x) ==
    [k \in 1..(Len(list) + 1) |->
        IF k <= p THEN list[k] ELSE IF k = p + 1 THEN x ELSE list[k - 1]]

\* after is the list with x in the place of its element at index i
IsReplaceAt(list, after, i, x) ==
    /\ i \in 0..(Len(list) - 1)
    /\ Len(after) = Len(list)
    /\ after[i + 1] = x
    /\ \A k \in 1..Len(list) : k # i + 1 => after[k] = list[k]

\* after holds the element of index i at index j and all other elements in
\* their order
IsMove(list, after, i, j) ==
    /\ Len(after) = Len(list)
    /\ after[j + 1] = list[i + 1]
    /\ RemoveAt(after, j) = RemoveAt(list, i)

\* C25: each list edit is the sequence operation it stands for: remove at
\* index i, append, insert at position p, replace at index i (only element i
\* changes), move from i to j (the moved record at index j, the others in
\* their order).
C25_EditsAreSequenceOperations ==
    [][/\ \A index \in 0..MaxList :
              BuilderDeleteAction(index) => actions' = RemoveAt(actions, index)
       /\ \A action \in FormRecords :
              BuilderSaveAction(action) =>
                  IF builder.editIndex # Null
                  THEN IsReplaceAt(actions, actions', builder.editIndex, action)
                  ELSE actions' = Append(actions, action)
       /\ \A action \in FormRecords :
              FlowSaveAction(action) =>
                  IsReplaceAt(actions, actions', flow.editIndex, action)
       /\ \A action \in FormRecords :
              FlowSaveNewAction(action) =>
                  IF flow.insertPosition # Null
                  THEN actions' = InsertAt(actions, flow.insertPosition, action)
                  ELSE actions' = Append(actions, action)
       /\ \A sourceIndex, destinationIndex \in 0..MaxList :
              BuilderDragEnd(sourceIndex, destinationIndex) =>
                  IsMove(actions, actions', sourceIndex, destinationIndex)]_vars

----------------------------------------------------------------------------
(* Home: the upload to S3, and the file name rules of lib/types *)

\* String.prototype.trim
trim(s) ==
    LET rest == {k \in 1..Len(s) : ~IsSpace(s[k])}
    IN  IF rest = {} THEN <<>> ELSE SubSeq(s, MinOf(rest), MaxOf(rest))

\* String.prototype.endsWith
endsWith(s, suffix) == Len(suffix) <= Len(s) /\ At(s, Len(s) - Len(suffix) + 1, suffix)

\* s.split(".")[0]
BeforeFirstDot(s) ==
    LET dots == {k \in 1..Len(s) : s[k] = "."}
    IN  IF dots = {} THEN s ELSE SubSeq(s, 1, MinOf(dots) - 1)

dotYaml == <<".","y","a","m","l">>
dotYml == <<".","y","m","l">>

MaxFilenameLength == 255

\* /[<>:"|?*\x00-\x1f]/, with the control characters a text here can hold
InvalidChars == {"<", ">", ":", "\"", "|", "?", "*", "\t", "\n"}

reservedNames == {<<"C","O","N">>, <<"P","R","N">>, <<"A","U","X">>, <<"N","U","L">>, <<"C","O","M","1">>, <<"C","O","M","2">>, <<"C","O","M","3">>, <<"C","O","M","4">>, <<"C","O","M","5">>, <<"C","O","M","6">>, <<"C","O","M","7">>, <<"C","O","M","8">>, <<"C","O","M","9">>, <<"L","P","T","1">>, <<"L","P","T","2">>, <<"L","P","T","3">>, <<"L","P","T","4">>, <<"L","P","T","5">>, <<"L","P","T","6">>, <<"L","P","T","7">>, <<"L","P","T","8">>, <<"L","P","T","9">>}

\* validateS3Filename(filename) for a string
validateS3Filename(filename) ==
    LET trimmed == trim(filename)
    IN  IF filename = <<>> THEN [isValid |-> FALSE, error |-> "Filename is required"]
        ELSE IF Len(trimmed) = 0 THEN [isValid |-> FALSE, error |-> "Filename cannot be empty"]
        ELSE IF Len(trimmed) > MaxFilenameLength
        THEN [isValid |-> FALSE, error |-> "Filename too long (max 255 characters)"]
        ELSE IF \E k \in 1..Len(trimmed) : trimmed[k] \in InvalidChars
        THEN [isValid |-> FALSE, error |-> "Filename contains invalid characters"]
        ELSE IF toUpperCase(BeforeFirstDot(trimmed)) \in reservedNames
        THEN [isValid |-> FALSE, error |-> "Filename uses a reserved name"]
        ELSE [isValid |-> TRUE, error |-> ""]

\* ensureYamlExtension(filename)
ensureYamlExtension(filename) ==
    LET trimmed == trim(filename)
    IN  IF endsWith(trimmed, dotYaml) \/ endsWith(trimmed, dotYml) THEN trimmed
        ELSE trimmed \o dotYaml

\* `workflow-${new Date().toISOString().slice(0, 19).replace(/:/g, "-")}.yaml`
\* at some moment
defaultFileName == <<"w","o","r","k","f","l","o","w","-","2","0","2","6","-","1","1","-","0","3","T","1","9","-","4","7","-","0","0",".","y","a","m","l">>

\* const fileName of handleS3UploadConfirm
UploadFileName(s3FileName) ==
    IF endsWith(s3FileName, dotYaml) \/ endsWith(s3FileName, dotYml) THEN s3FileName
    ELSE s3FileName \o dotYaml

\* Home.handleS3Upload, from the "Upload to S3" button: without text it only
\* shows a toast
HandleS3Upload ==
    /\ Quiescent /\ NoDialog
    /\ ~s3.isS3UploadDialogOpen
    /\ yamlContent.form # "empty"
    /\ s3' = [s3 EXCEPT !.s3FileName = defaultFileName, !.isS3UploadDialogOpen = TRUE]
    /\ UNCHANGED <<homeVars, valVars, infVars, sqlVars, reader, form>>

\* onChange of the file name input, which is disabled during an upload
SetS3FileName(name) ==
    /\ s3.isS3UploadDialogOpen /\ ~s3.isUploading
    /\ name # s3.s3FileName
    /\ s3' = [s3 EXCEPT !.s3FileName = name]
    /\ UNCHANGED <<homeVars, valVars, infVars, sqlVars, reader, form>>

\* Home.handleS3UploadConfirm up to its await: the button is disabled during
\* an upload and for a blank name; the upload starts under fileName
HandleS3UploadConfirm ==
    /\ s3.isS3UploadDialogOpen /\ ~s3.isUploading
    /\ trim(s3.s3FileName) # <<>>
    /\ s3' = [s3 EXCEPT !.isUploading = TRUE, !.uploading = TRUE,
                        !.fileName = UploadFileName(s3.s3FileName)]
    /\ UNCHANGED <<homeVars, valVars, infVars, sqlVars, reader, form>>

\* Home.handleS3UploadConfirm after its await, with the finally block
S3UploadSettled ==
    /\ s3.uploading
    /\ s3' = [s3 EXCEPT !.isUploading = FALSE, !.uploading = FALSE,
                        !.isS3UploadDialogOpen = FALSE, !.s3FileName = <<>>]
    /\ UNCHANGED <<homeVars, valVars, infVars, sqlVars, reader, form>>

\* Home.handleS3UploadCancel: the Cancel button is disabled during an upload
HandleS3UploadCancel ==
    /\ s3.isS3UploadDialogOpen /\ ~s3.isUploading
    /\ s3' = [s3 EXCEPT !.isS3UploadDialogOpen = FALSE, !.s3FileName = <<>>]
    /\ UNCHANGED <<homeVars, valVars, infVars, sqlVars, reader, form>>

\* onOpenChange of the dialog: Escape or a click outside closes it
S3DialogDismiss ==
    /\ s3.isS3UploadDialogOpen
    /\ s3' = [s3 EXCEPT !.isS3UploadDialogOpen = FALSE]
    /\ UNCHANGED <<homeVars, valVars, infVars, sqlVars, reader, form>>

\* a name longer than the limit
LongName == [k \in 1..(MaxFilenameLength + 1) |-> "a"]

\* the names a user types
S3FileNames == {LongName,
    <<>>,
    <<" ">>,
    <<"a">>,
    <<"a",".","y","a","m","l">>,
    <<"b",".","y","m","l">>,
    <<"a",".","y","a","m","l"," ">>,
    <<"a","<","b">>,
    <<"a","\t","b">>,
    <<"c","o","n">>,
    <<"N","U","L",".","y","a","m","l">>,
    <<"c","o","m","1",".","t","x","t">>,
    <<"x",".","y","a","m","l",".","b","a","k">>}

\* Home with a one-record list and its text
InitUpload ==
    /\ activeTab = "action-builder"
    /\ actions \in SeqsUpTo(FormRecords, 1) \ {<<>>}
    /\ yamlContent = stringifyYaml(MapData(ActionsSeq(actions)))
    /\ validationErrors = <<>>
    /\ editorMounted = FALSE
    /\ editorEffectDue = FALSE
    /\ actionsEffectDue = FALSE
    /\ escaped = FALSE
    /\ event = NoEvent
    /\ builder = BuilderInitial
    /\ flow = FlowInitial
    /\ nodes = <<>>
    /\ edges = <<>>
    /\ flowEffectDue = FALSE
    /\ ValIdle
    /\ InfIdle
    /\ SqlIdle
    /\ PageIdle

NextUpload ==
    \/ HandleS3Upload
    \/ \E name \in S3FileNames : SetS3FileName(name)
    \/ HandleS3UploadConfirm
    \/ S3UploadSettled
    \/ HandleS3UploadCancel
    \/ S3DialogDismiss

SpecUpload == InitUpload /\ [][NextUpload]_vars

----------------------------------------------------------------------------
(* Properties of the upload to S3 *)

\* C23: an upload is started only with a file name that validateS3Filename
\* accepts (not empty, at most 255 characters, none of the invalid
\* characters, no reserved name), and the name it is started under ends in
\* .yaml or .yml, the extension being appended only when the name lacks it.
C23_UploadNameValid ==
    s3.uploading =>
        /\ validateS3Filename(s3.s3FileName).isValid
        /\ endsWith(s3.fileName, dotYaml) \/ endsWith(s3.fileName, dotYml)
        /\ s3.fileName = ensureYamlExtension(s3.s3FileName)
----------------------------------------------------------------------------
(* Home: a file read while ActionBuilder or FlowVisualizer has a dialog open *)

MaxLoad == 2        \* longest record list of the page and of a file

\* the files a user picks: documents of up to MaxLoad records
LoadTexts ==
    {DocText(MapData(ActionsSeq(items)), 1) :
        items \in SeqsUpTo({e \in HomeEntries : e.e = "map" /\ Get(e, "action") = Str(sLoad)},
                           MaxLoad)}

\* Home.handleFileUpload, from the file input of the page: reader.readAsText(file)
\* starts the read and returns; the input is behind an open dialog
HandleFileUpload(content) ==
    /\ Quiescent /\ NoDialog
    /\ ~reader.reading
    /\ reader' = [reading |-> TRUE, content |-> content]
    /\ UNCHANGED <<homeVars, valVars, infVars, sqlVars, s3, form>>

\* reader.onload: a task of its own, run when the read has finished, whatever
\* the page shows by then
ReaderOnload ==
    /\ Quiescent
    /\ reader.reading
    /\ HandleYamlChange(reader.content)
    /\ reader' = NoFile
    /\ event' = Event("fileUpload", reader.content, actions, Null, Null)
    /\ UNCHANGED <<activeTab, editorMounted>>
    /\ UNCHANGED <<valVars, infVars, sqlVars, s3, form>>

\* Home with a list built in the form view, and ActionBuilder or
\* FlowVisualizer just mounted
InitLoad ==
    /\ activeTab \in {"action-builder", "flow-visualizer"}
    /\ actions \in SeqsUpTo(FormRecords \cup {MapEntry(initialExtract)}, MaxLoad) \ {<<>>}
    /\ yamlContent = stringifyYaml(MapData(ActionsSeq(actions)))
    /\ validationErrors = <<>>
    /\ editorMounted = FALSE
    /\ editorEffectDue = FALSE
    /\ actionsEffectDue = FALSE
    /\ escaped = FALSE
    /\ event = NoEvent
    /\ builder = BuilderInitial
    /\ flow = FlowInitial
    /\ nodes = <<>>
    /\ edges = <<>>
    /\ flowEffectDue = FlowShown(activeTab)
    /\ ValIdle
    /\ InfIdle
    /\ SqlIdle
    /\ PageIdle

NextLoad ==
    \/ \E content \in LoadTexts : HandleFileUpload(content)
    \/ ReaderOnload
    \/ ActionsEffect
    \/ FlowEffect
    \/ \E index \in 0..(MaxLoad - 1) : BuilderEditAction(index)
    \/ \E action \in FormRecords : BuilderSaveAction(action)
    \/ BuilderCloseDialog
    \/ \E index \in 0..(MaxLoad - 1) : FlowEditAction(index)
    \/ \E action \in FormRecords : FlowSaveAction(action)
    \/ FlowCancelEdit

SpecLoad == InitLoad /\ [][NextLoad]_vars

----------------------------------------------------------------------------
(* Properties of the file read during an edit *)

\* C27: however the read of a file and an open edit dialog interleave, a
\* replace-at-index save writes at an index the current list has: the save
\* leaves the length of the list as it was and every index holds a record
\* afterwards.
C27_SaveWritesInsideList ==
    [][/\ \A action \in FormRecords :
              (BuilderSaveAction(action) /\ builder.editIndex # Null) =>
                  /\ builder.editIndex < Len(actions)
                  /\ Len(actions') = Len(actions)
                  /\ ~HasHole(actions')
       /\ \A action \in FormRecords :
              FlowSaveAction(action) =>
                  /\ flow.editIndex < Len(actions)
                  /\ Len(actions') = Len(actions)
                  /\ ~HasHole(actions')]_vars
----------------------------------------------------------------------------
(* ActionForm in the dialog of ActionBuilder *)

\* getMandatoryProps(actionName)
getMandatoryProps(actionName) ==
    LET found == FindDefinition(actionName)
    IN  IF found = {} THEN <<>>
        ELSE actionDefinitions[CHOOSE d \in found : TRUE].mandatoryProps

\* getOptionalProps(actionName), for the types whose optional fields are
\* among FieldNames (format, strategy and options are not)
getOptionalProps(actionName) ==
    IF actionName = Str(sExtract) THEN <<"tableName", "databaseName">>
    ELSE IF actionName = Str(sExecute) THEN <<"output">>
    ELSE <<>>

\* value || ""
OrEmpty(value) == IF Falsy(value) THEN Str(<<>>) ELSE value

\* JSON.stringify(value) of a value without quotes or backslashes in it
RECURSIVE JsonItems(_)
JsonItems(items) ==
    IF items = <<>> THEN <<>>
    ELSE (IF items[1].s THEN <<"\"">> \o items[1].c \o <<"\"">> ELSE items[1].c)
         \o (IF Len(items) > 1 THEN <<",">> ELSE <<>>) \o JsonItems(Tail(items))

JsonStringify(value) ==
    CASE value.t = "null" -> sNull
      [] value.t = "seq" -> <<"[">> \o JsonItems(value.v) \o <<"]">>
      [] OTHER -> JsonItems(value.v)

\* the values whose JSON text the form can meet
JsonValues ==
    {NullV, Num(<<"0">>), Num(<<"1">>), Str(<<"x">>), SeqV(<<>>), SeqV(<<StrItem(<<"x">>)>>)}

\* JSON.parse(text): the value text is the JSON of, or a SyntaxError
JsonParse(text) ==
    LET values == {value \in JsonValues : JsonStringify(value) = text}
    IN  IF values = {} THEN [threw |-> TRUE, value |-> Absent]
        ELSE [threw |-> FALSE, value |-> CHOOSE value \in values : TRUE]

\* useState({ action: initialAction?.action || "Extract",
\*            name: initialAction?.name || "", dataframe: initialAction?.dataframe || "",
\*            ...initialAction })
InitialFormData(initialAction) ==
    [key \in FieldNames |->
        IF initialAction.e = "map" /\ initialAction.f[key] # Absent THEN initialAction.f[key]
        ELSE IF key = "action" THEN Str(sExtract)
        ELSE IF key \in {"name", "dataframe"} THEN Str(<<>>)
        ELSE Absent]

\* useState(initialAction?.action || "Extract")
InitialActionType(initialAction) ==
    IF initialAction.e = "map" /\ ~Falsy(initialAction.f["action"])
    THEN initialAction.f["action"]
    ELSE Str(sExtract)

\* "Initialize optional props from initial action": selected
SelectedOptionalProps(initialAction) ==
    SelectSeq(getOptionalProps(initialAction.f["action"]),
              LAMBDA prop : initialAction.f[prop] # Absent)

\* "Initialize optional props from initial action": custom
CustomProps(initialAction) ==
    LET allDefinedProps == getMandatoryProps(initialAction.f["action"])
                               \o getOptionalProps(initialAction.f["action"])
        keys == SelectSeq(FieldOrder,
                    LAMBDA key : /\ initialAction.f[key] # Absent
                                 /\ ~ArrayIncludes(allDefinedProps, key)
                                 /\ key # "action")
    IN  [k \in 1..Len(keys) |->
            [key |-> keys[k],
             value |-> IF initialAction.f[keys[k]].t = "str"
                       THEN initialAction.f[keys[k]].v[1].c
                       ELSE JsonStringify(initialAction.f[keys[k]])]]

\* mutant: the fields of the form that are neither reserved, mandatory nor
\* selected are kept
NewFormDataKeepingRest(formData, actionType, selected) ==
    [key \in FieldNames |->
        IF key = "action" THEN actionType
        ELSE IF key \in {"name", "dataframe"}
                \/ ArrayIncludes(getMandatoryProps(actionType), key)
                \/ ArrayIncludes(selected, key)
        THEN OrEmpty(formData[key])
        ELSE formData[key]]

\* "Update form when action type changes": newFormData
NewFormData(formData, actionType, selected) ==
    [key \in FieldNames |->
        IF key = "action" THEN actionType
        ELSE IF key \in {"name", "dataframe"}
                \/ ArrayIncludes(getMandatoryProps(actionType), key)
                \/ ArrayIncludes(selected, key)
        THEN OrEmpty(formData[key])
        ELSE Absent]

\* the first render of an ActionForm in the dialog: the initial values of its
\* state; currentAction is the record of the card that was clicked
ActionFormRender ==
    /\ builder.isDialogOpen
    /\ form.stage = "none"
    /\ LET initialAction == IF builder.editIndex # Null /\ builder.editIndex < Len(actions)
                            THEN actions[builder.editIndex + 1]
                            ELSE NullEntry
       IN  form' = [NoForm EXCEPT !.stage = "rendered",
                                  !.initialAction = initialAction,
                                  !.actionType = InitialActionType(initialAction),
                                  !.formData = InitialFormData(initialAction)]
    /\ UNCHANGED <<homeVars, valVars, infVars, sqlVars, s3, reader>>

\* the three effects after the first render, each with the state of that
\* render: selectedOptionalProps is still []
ActionFormMountEffects ==
    /\ form.stage = "rendered"
    /\ form' = [form EXCEPT
           !.stage = "ready",
           !.selectedOptionalProps =
               IF form.initialAction.e = "map" THEN SelectedOptionalProps(form.initialAction)
               ELSE form.selectedOptionalProps,
           !.customProps =
               IF form.initialAction.e = "map" THEN CustomProps(form.initialAction)
               ELSE form.customProps,
           !.formData = NewFormData(form.formData, form.actionType, form.selectedOptionalProps),
           !.sqlValidation = validateSQLInAction(MapEntry(form.formData)),
           !.optionalDue = (form.initialAction.e = "map"),
           !.formDataDue = TRUE]
    /\ UNCHANGED <<homeVars, valVars, infVars, sqlVars, s3, reader>>

\* the effects after a later render: "Update form when action type changes"
\* when selectedOptionalProps is a new array, "Validate SQL when form data
\* changes" when formData is a new object
ActionFormEffects ==
    /\ form.stage = "ready"
    /\ form.optionalDue \/ form.formDataDue
    /\ form' = [form EXCEPT
           !.formData = IF form.optionalDue
                        THEN NewFormData(form.formData, form.actionType,
                                         form.selectedOptionalProps)
                        ELSE form.formData,
           !.sqlValidation = IF form.formDataDue
                             THEN validateSQLInAction(MapEntry(form.formData))
                             ELSE form.sqlValidation,
           !.optionalDue = FALSE,
           !.formDataDue = form.optionalDue]
    /\ UNCHANGED <<homeVars, valVars, infVars, sqlVars, s3, reader>>

\* the form has run its effects and waits for the user
FormReady ==
    /\ builder.isDialogOpen
    /\ form.stage = "ready" /\ ~form.optionalDue /\ ~form.formDataDue

\* the fields the form shows an input for
ShownProps(f) ==
    {key \in FieldNames \ {"action"} :
        \/ ArrayIncludes(getMandatoryProps(f.actionType), key)
        \/ /\ ArrayIncludes(getOptionalProps(f.actionType), key)
           /\ ArrayIncludes(f.selectedOptionalProps, key)}

\* ActionForm.handleInputChange(key, value), from the input of a field
HandleInputChange(key, value) ==
    /\ Quiescent /\ FormReady
    /\ key \in ShownProps(form)
    /\ form.formData[key] # value
    /\ form' = [form EXCEPT !.formData = With(form.formData, key, value),
                            !.formDataDue = TRUE,
                            !.touched = TRUE]
    /\ UNCHANGED <<homeVars, valVars, infVars, sqlVars, s3, reader>>

\* finalData of handleSubmit: formData with the custom fields that have a
\* key and a value
FinalData(f) ==
    [key \in FieldNames |->
        LET set == {k \in 1..Len(f.customProps) :
                       f.customProps[k].key = key /\ f.customProps[k].value # <<>>}
        IN  IF set = {} THEN f.formData[key]
            ELSE LET text == f.customProps[MaxOf(set)].value
                 IN  IF JsonParse(text).threw THEN Str(text) ELSE JsonParse(text).value]

\* the record handleSubmit hands to onSave
SubmittedRecord(f) == autoFormatSQLInAction(MapEntry(FinalData(f)), NoOptions).result

\* every Input with `required` has a value: the mandatory fields shown
\* neither as a Textarea nor as an SQLEditor
RequiredInputsFilled(f) ==
    \A prop \in FieldNames \ {"action"} :
        (/\ ArrayIncludes(getMandatoryProps(f.actionType), prop)
         /\ prop \notin {"transformations", "sources"}
         /\ ~ArrayIncludes(identifySQLProperties(MapEntry(f.formData)), prop))
            => ToStr(OrEmpty(f.formData[prop])) # <<>>

\* mutant: a form whose SQL has errors is not submitted
SubmitAllowedIfSqlValid(f) == RequiredInputsFilled(f) /\ f.sqlValidation.isValid

\* <form onSubmit={handleSubmit}>: the browser calls handleSubmit when its
\* own validation of the inputs passes; handleSubmit has no condition
SubmitAllowed(f) == RequiredInputsFilled(f)

\* ActionForm.handleSubmit, with onSave = handleSaveAction of ActionBuilder
HandleSubmit ==
    /\ FormReady
    /\ SubmitAllowed(form)
    /\ BuilderSaveAction(SubmittedRecord(form))

\* the dialog has closed: its ActionForm is unmounted
ActionFormUnmount ==
    /\ ~builder.isDialogOpen
    /\ form.stage # "none"
    /\ form' = NoForm
    /\ UNCHANGED <<homeVars, valVars, infVars, sqlVars, s3, reader>>

\* the records of the list: with and without optional fields, with an SQL
\* script with and without an error, with custom fields
StoredRecords ==
    LET extract == With(With(With(With(EmptyObject, "action", Str(sExtract)),
                        "name", Str(<<"b">>)), "dataframe", Str(<<"p">>)), "location", Str(<<"x">>))
        execute == With(With(With(EmptyObject, "action", Str(sExecute)),
                        "name", Str(<<"b">>)), "dataframe", Str(<<"p">>))
    IN  { MapEntry(extract),
          MapEntry(With(extract, "tableName", Str(<<"t">>))),
          MapEntry(With(extract, "path", Str(<<"x">>))),
          MapEntry(With(extract, "path", Str(<<"1">>))),
          MapEntry(With(extract, "path", Num(<<"1">>))),
          MapEntry(With(extract, "sources", SeqV(<<StrItem(<<"x">>)>>))),
          MapEntry(With(execute, "script", Str(tSelect))),
          MapEntry(With(execute, "script", Str(tDeleteOpen))),
          MapEntry(With(With(execute, "script", Str(tScriptFile)), "output", Str(<<"o">>))) }

\* what the user types into a field
TypedValues == {Str(<<>>), Str(tDeleteOpen)}

\* Home with a list of one record and ActionBuilder shown
InitForm ==
    /\ activeTab = "action-builder"
    /\ actions \in [1..1 -> StoredRecords]
    /\ yamlContent = stringifyYaml(MapData(ActionsSeq(actions)))
    /\ validationErrors = <<>>
    /\ editorMounted = FALSE
    /\ editorEffectDue = FALSE
    /\ actionsEffectDue = FALSE
    /\ escaped = FALSE
    /\ event = NoEvent
    /\ builder = BuilderInitial
    /\ flow = FlowInitial
    /\ nodes = <<>>
    /\ edges = <<>>
    /\ flowEffectDue = FALSE
    /\ ValIdle
    /\ InfIdle
    /\ SqlIdle
    /\ PageIdle

NextForm ==
    \/ form.stage = "none" /\ BuilderEditAction(0)
    \/ ActionFormRender
    \/ ActionFormMountEffects
    \/ ActionFormEffects
    \/ \E key \in {"name", "script"}, value \in TypedValues :
           HandleInputChange(key, value)
    \/ HandleSubmit
    \/ FormReady /\ BuilderCloseDialog
    \/ ActionFormUnmount
    \/ ActionsEffect

SpecForm == InitForm /\ [][NextForm]_vars
----------------------------------------------------------------------------
(* Properties of ActionForm *)

\* the SQL validation of the form reports an error or a warning
ReportsSqlFindings(f) == Len(f.sqlValidation.errors) > 0 \/ Len(f.sqlValidation.warnings) > 0

\* C22: whatever the SQL validation of the form reports, a form that waits for
\* the user with its required inputs filled can be submitted, and the submit
\* puts the submitted record into the list.
C22_ValidationNeverBlocksSave ==
    (Quiescent /\ FormReady /\ RequiredInputsFilled(form)) =>
        ENABLED (/\ HandleSubmit
                 /\ Len(actions') > builder.editIndex
                 /\ actions'[builder.editIndex + 1] = SubmittedRecord(form))

\* a record was saved from a form whose SQL validation reported an error
C22_Witness ==
    /\ event.kind = "builderSave"
    /\ form.stage = "ready"
    /\ ~form.sqlValidation.isValid
    /\ actions[builder.editIndex + 1] = SubmittedRecord(form)

\* C26: a record opened in the form and saved with no input changed is
\* replaced by a record with the same value in every field that is not an
\* SQL field, optional and custom fields included.
C26_SaveWithoutChangeKeepsRecord ==
    [][(HandleSubmit /\ ~form.touched /\ form.initialAction.e = "map") =>
           \A key \in FieldNames :
               ~ArrayIncludes(identifySQLProperties(form.initialAction), key) =>
                   actions'[builder.editIndex + 1].f[key] = form.initialAction.f[key]]_vars
====
